---- MODULE Spec2Model ----
(***************************************************************************)
(* Model of the staging engine of the Minimum Preservation Tool            *)
(* (src/mpt/staging.py): the FileStager state machine that copies one      *)
(* source file to every destination, verifies it and rolls it back, and    *)
(* the stage_files result loop with its consecutive-failure breaker.       *)
(*                                                                         *)
(* One pool worker runs _stage_file for the files the generator yields,    *)
(* one after the other; its results travel through the pool's result       *)
(* queue to the loop of stage_files, while the worker goes on with its     *)
(* next file.  src, disk and manifest                                      *)
(* hold what lies at the paths of the task the worker is executing (the    *)
(* paths of different tasks are disjoint; of a manifest, the lines the     *)
(* task appended); they leave the model when the task's result is sent.    *)
(* Directories are not modelled, and a results entry keeps the path of     *)
(* the file, not the per-destination columns of the report.                *)
(*                                                                         *)
(* The second part models the FileManager pipelines of                     *)
(* src/mpt/filemanager.py (Create, ValidateManifest, ValidateTree,         *)
(* CompareTrees, CompareManifests) with                                    *)
(* the ReportHandler of src/mpt/results.py: a primary tree of data files,  *)
(* a checksum tree of sidecars and a manifest, the pool's tasks, the       *)
(* results on their way to the loop, the results cache and the report.     *)
(* Texts are sequences of one-character strings, a text file is the        *)
(* sequence of its lines, a path relative to a root is the sequence of its *)
(* components.  The third part models the library functions scan_tree and  *)
(* hash_file, a FileStager made with an algorithm of the caller's choice   *)
(* and _check_other_manifests as calls with their results.  Each           *)
(* specification leaves the variables of the other parts at rest; SpecAll  *)
(* takes the runs of staging and of the pipelines together, from the       *)
(* command line main reads.                                                *)
(***************************************************************************)
EXTENDS Integers, Sequences, FiniteSets, Bags, TLC

\* ------------------------------------------------------------------ bounds
MaxDest == 2
NumFiles == 2
MaxBlocks == 1
MaxThreshold == 1
NumPaths == 2
MaxCache == 2
MaxOthers == 2
MaxLen == 2
MaxCalls == 2

\* --------------------------------------------------------------- constants
\* Python's None where a digest is expected (digests are naturals)
None == 0 - 1

READY == "Ready for staging"
STAGED == "Staged"
DUPLICATE_FILE == "Duplicate data file"
DUPLICATE_CHECKSUM == "Duplicate checksum file"
DATA_WRITE_FAILURE == "Failed to write data file"
CHECKSUM_WRITE_FAILURE == "Failed to write checksum file"
CHECKSUM_MISMATCH == "Checksum mismatch"
COULD_NOT_REMOVE == "Could not remove unstaged file"
IN_PROGRESS == "Staging in progress"
UNSTAGED == "Unstaged"

StagingStatus ==
    {READY, STAGED, DUPLICATE_FILE, DUPLICATE_CHECKSUM, DATA_WRITE_FAILURE,
     CHECKSUM_WRITE_FAILURE, CHECKSUM_MISMATCH, COULD_NOT_REMOVE, IN_PROGRESS,
     UNSTAGED}

default_algorithm == "sha256"

VARIABLES
    cfg,                 \* the arguments of the run: destinations, manifests, threshold
    next_index,          \* position of the files_iterable generator
    wpc,                 \* where the worker is inside _stage_file / start_copy
    fs,                  \* the worker's FileStager
    src,                 \* the source file of the worker's task (content: the bytes
                         \* it has, or had when it was removed)
    disk,                \* per destination: the data file and the sidecar of the task
    pre,                 \* disk as it was when the task started (history)
    hist,                \* what happened to the task so far (history)
    manifest,            \* per destination: the lines the task appended to its manifest
    outq,                \* results on their way from the worker to stage_files
    results,             \* the results dictionary of stage_files
    terminate,           \* what _add_to_results returned last
    mpc,                 \* where stage_files is
    staging_interrupted  \* the flag _show_results computes

VARIABLES
    os_sep,              \* os.sep of the platform the tool runs on
    fm,                  \* the FileManager: action, algorithm, manifest_file, cache_size
    data,                \* the primary tree: the data file at every relative path
    sidecars,            \* the checksum tree: the file at <path>.<algorithm>
    manifest_file,       \* the manifest file
    todo,                \* inputs of the running imap_unordered not yet given to a worker
    fq,                  \* results on their way from the workers to the loop
    results_cache,       \* the loop's results_cache
    report,              \* the ReportHandler: per kind the rows written, count and size
    fpc,                 \* where the pipeline is
    prev,                \* the report of the previous run (history)
    other_paths          \* the other trees or manifests of a comparison, in the
                         \* order of the arguments

VARIABLES
    call,                \* a call of scan_tree or hash_file: the function and its arguments
    ret                  \* what the calls made so far have returned

VARIABLES
    args                 \* the command line as main reads it: whether the directory
                         \* and the checksum tree exist, the numbers of targets,
                         \* trees and manifests

fmVars == <<os_sep, fm, data, sidecars, manifest_file, todo, fq, results_cache, report,
            fpc, prev, other_paths>>

libVars == <<call, ret>>

stageVars == <<cfg, next_index, wpc, fs, src, disk, pre, hist, manifest, outq, results,
               terminate, mpc, staging_interrupted>>

vars == <<stageVars, fmVars, libVars, args>>

workerVars == <<wpc, fs, src, disk, pre, hist, manifest>>
mainVars == <<results, terminate, mpc, staging_interrupted>>

Dests == 1 .. cfg.n

\* ------------------------------------------------------------------- files
NoFile == [exists |-> FALSE, content |-> <<>>]
File(c) == [exists |-> TRUE, content |-> c]

\* a block of source data is a small number; a file's content a sequence of them
Sources == {[i \in 1 .. k |-> i] : k \in 0 .. MaxBlocks}

\* what may lie at a destination's paths before the task starts
OldData == File(<<3>>)
OldSidecar == File(<<<<"0", " ", "*", "\\", "0">>>>)
PreStates ==
    {[data |-> dt, sidecar |-> sc] : dt \in {NoFile, OldData}, sc \in {NoFile, OldSidecar}}

\* ----------------------------------------------------------------- hashing
HashNew(algorithm) == IF algorithm = "sha256" THEN 7 ELSE 11
HashUpdate(h, block) == (h * 31 + block + 1) % 1009

RECURSIVE HashBlocks(_, _)
HashBlocks(h, blocks) ==
    IF blocks = <<>> THEN h
    ELSE HashBlocks(HashUpdate(h, Head(blocks)), Tail(blocks))

hash_file(file, algorithm) ==
    <<HashBlocks(HashNew(algorithm), file.content), Len(file.content)>>

\* the bytes a failing medium stores instead of the bytes written
Corrupt(c) == [c EXCEPT ![Len(c)] = 0]

Take(s, k) == SubSeq(s, 1, k)

\* ------------------------------------------------------------- FileStager
Statuses(st) == {st.destinations[d].status : d \in DOMAIN st.destinations}

aborted(st) == COULD_NOT_REMOVE \in Statuses(st)
\* as completed, with any() written for all()
completed_any(st) == \E d \in DOMAIN st.destinations : st.destinations[d].status = STAGED

completed(st) == \A d \in DOMAIN st.destinations : st.destinations[d].status = STAGED
failed(st) == \E d \in DOMAIN st.destinations :
    st.destinations[d].status \notin {STAGED, READY, IN_PROGRESS}
ready(st) == \A d \in DOMAIN st.destinations : st.destinations[d].status = READY

NoStager == [source |-> 0, checksum |-> None, algorithm |-> default_algorithm,
             remove_original |-> TRUE, destinations |-> <<>>]

BlankDisk == [d \in Dests |-> [data |-> NoFile, sidecar |-> NoFile]]
NoLines == [d \in Dests |-> <<>>]

\* quorum: whether write_files was entered ("passed") or left out ("failed");
\* write_fault: some destination was given a write-failure state;
\* late: the breaker had tripped when the worker took the task
NoHistory == [quorum |-> "pending", write_fault |-> FALSE, late |-> FALSE]

\* the worker between two tasks
Idle ==
    /\ wpc = "idle"
    /\ fs = NoStager
    /\ src = NoFile
    /\ disk = BlankDisk
    /\ pre = BlankDisk
    /\ hist = NoHistory
    /\ manifest = NoLines

\* the worker has sent the result of its task and waits for the next one
BecomeIdle ==
    /\ wpc' = "idle"
    /\ fs' = NoStager
    /\ src' = NoFile
    /\ disk' = BlankDisk
    /\ pre' = BlankDisk
    /\ hist' = NoHistory
    /\ manifest' = NoLines

\* ------------------------------------------- the FileManager's world
CREATE == "Checksum creation"
VALIDATE_MANIFEST == "Manifest validation"
VALIDATE_TREE == "Checksum tree validation"
COMPARE_TREES == "Checksum tree comparison"
COMPARE_MANIFESTS == "Manifest comparison"

ADDED == "File added to checksum tree"
SKIPPED == "File already listed in checksum tree"
FAILED == "Hash generation failed for file"
CreationResult == {ADDED, SKIPPED, FAILED}

VALID == "File found and checksum valid"
INVALID == "File found but checksum not valid"
MISSING == "File not found"
ADDITIONAL == "Unexpected file found"
OSERROR == "OS Error: cannot open file"
ValidationResult == {VALID, INVALID, MISSING, ADDITIONAL, OSERROR}

MATCHED == "File checksum matches on all nodes"
UNMATCHED == "File checksum does not match on all nodes"
ComparisonResult_MISSING == "Checksum missing from node"
ComparisonResult_OSERROR == "OS Error: cannot open checksum file"
ComparisonResult == {MATCHED, UNMATCHED, ComparisonResult_MISSING, ComparisonResult_OSERROR}

\* the algorithms of the registry that the model tells apart
algorithms_supported == {"sha256", "md5", "shake_128", "xxh64"}

\* the relative paths a tree may hold: the file "d" and the file "a" in the
\* directory "dd", then the file "a"
PathList == << << <<"d">> >>, << <<"d", "d">>, <<"a">> >>, << <<"a">> >> >>
Paths == {PathList[i] : i \in 1 .. NumPaths}

\* a file that is not there, a readable file and one whose open raises OSError
Absent == [exists |-> FALSE, readable |-> FALSE, content |-> <<>>]
Present(c) == [exists |-> TRUE, readable |-> TRUE, content |-> c]
Unreadable(c) == [exists |-> TRUE, readable |-> FALSE, content |-> c]

NoSidecars == [k \in Paths \X algorithms_supported |-> Absent]

\* ReportHandler.__init__: no output file yet, every count and size zero
NewReport ==
    [k \in CreationResult \cup ValidationResult \cup ComparisonResult |->
        [rows |-> <<>>, count |-> 0, size |-> 0, columns |-> {}, headers |-> 0]]

\* what the previous run left: its report, and the checksum tree and the
\* manifest as they were when the present run started
NoPrevious == [report |-> NewReport, sidecars |-> NoSidecars, manifest_file |-> Absent]

NoManager == [action |-> "none", algorithm |-> default_algorithm, manifest |-> FALSE,
              cache_size |-> 1, count_files |-> FALSE, run |-> 0]

\* no FileManager has been constructed
FileManagerOff ==
    /\ os_sep = "/"
    /\ fm = NoManager
    /\ data = [p \in Paths |-> Absent]
    /\ sidecars = NoSidecars
    /\ manifest_file = Absent
    /\ todo = {}
    /\ fq = <<>>
    /\ results_cache = <<>>
    /\ report = NewReport
    /\ fpc = "off"
    /\ prev = NoPrevious
    /\ other_paths = <<>>

\* a command line that names an existing directory and nothing else
NoArgs == [dir |-> TRUE, tree |-> TRUE, targets |-> 0, trees |-> 0, manifests |-> 0]

\* the command lines of mpt stage for the run: -t once per destination, any
\* number of --trees, and --manifests when the run writes manifests
StageArgs ==
    {a \in [dir : BOOLEAN, tree : {TRUE}, targets : {cfg.n}, trees : 0 .. MaxDest,
            manifests : 0 .. MaxDest] : cfg.manifests <=> a.manifests > 0}

\* no call of a library function
NoCall == [fn |-> "none"]
NoReturn == [raised |-> FALSE, values |-> <<>>]
LibraryOff == call = NoCall /\ ret = NoReturn

Init ==
    /\ cfg \in [n : 1 .. MaxDest, manifests : BOOLEAN, max_failures : 0 .. MaxThreshold]
    /\ next_index = 1
    /\ Idle
    /\ outq = <<>>
    /\ results = [staged |-> <<>>, failed |-> <<>>, aborted |-> <<>>, unknown |-> <<>>,
                  consecutive_failures |-> 0, failure_threshold |-> cfg.max_failures]
    /\ terminate = FALSE
    /\ mpc = "main"
    /\ staging_interrupted = FALSE
    /\ args \in StageArgs
    /\ FileManagerOff
    /\ LibraryOff

\* the pool is never closed or terminated by stage_files: its worker lives
\* until stage_files has returned or raised and the process exits
PoolAlive == mpc \in {"loop", "show"}

\* FileStager.__init__ / next_file, called by _stage_file for the next file
next_file ==
    /\ PoolAlive
    /\ wpc = "idle"
    /\ next_index <= NumFiles
    /\ \E content \in Sources, before \in [Dests -> PreStates] :
        /\ src' = File(content)
        /\ disk' = before
        /\ pre' = before
    /\ fs' = [source |-> next_index, checksum |-> None, algorithm |-> default_algorithm,
              remove_original |-> TRUE,
              destinations |-> [d \in Dests |->
                  [checksum_file |-> TRUE, manifest_file |-> cfg.manifests,
                   checksum_value |-> None, status |-> READY, handler |-> FALSE]]]
    /\ next_index' = next_index + 1
    /\ hist' = [hist EXCEPT !.late = terminate]
    /\ wpc' = "sc_open"
    /\ UNCHANGED <<args, libVars, fmVars, cfg, manifest, outq, mainVars>>

\* ---------------------------------------------------------------- Open
\* _open_file in exclusive mode raises when makedirs or open fails or the file
\* is already there; otherwise the file is created empty
open_raises(file, fail) == fail \/ file.exists

\* as OpenedDest, looking for the sidecar before the data file
OpenedDest_SidecarFirst(v, dk, fail) ==
    IF dk.sidecar.exists THEN [v EXCEPT !.status = DUPLICATE_CHECKSUM]
    ELSE IF dk.data.exists THEN [v EXCEPT !.status = DUPLICATE_FILE]
    ELSE IF open_raises(dk.data, fail)
         THEN [v EXCEPT !.status = DATA_WRITE_FAILURE]
         ELSE [v EXCEPT !.status = READY, !.handler = TRUE]

OpenedDest(v, dk, fail) ==
    IF dk.data.exists THEN [v EXCEPT !.status = DUPLICATE_FILE]
    ELSE IF dk.sidecar.exists THEN [v EXCEPT !.status = DUPLICATE_CHECKSUM]
    ELSE IF open_raises(dk.data, fail)
         THEN [v EXCEPT !.status = DATA_WRITE_FAILURE]
         ELSE [v EXCEPT !.status = READY, !.handler = TRUE]

OpenedDisk(dk, fail) ==
    IF dk.data.exists \/ dk.sidecar.exists \/ open_raises(dk.data, fail)
    THEN dk
    ELSE [dk EXCEPT !.data = File(<<>>)]

open_destination_files ==
    /\ PoolAlive
    /\ wpc = "sc_open"
    /\ \E fail \in {f \in [Dests -> BOOLEAN] :
                        \* only an attempted open can fail
                        \A d \in Dests : f[d] => ~disk[d].data.exists /\ ~disk[d].sidecar.exists} :
        /\ fs' = [fs EXCEPT !.destinations =
                    [d \in Dests |-> OpenedDest(fs.destinations[d], disk[d], fail[d])]]
        /\ disk' = [d \in Dests |-> OpenedDisk(disk[d], fail[d])]
    /\ hist' = [hist EXCEPT !.write_fault = DATA_WRITE_FAILURE \in Statuses(fs')]
    /\ wpc' = "sc_write"
    /\ UNCHANGED <<args, libVars, fmVars, cfg, next_index, src, pre, manifest, outq, mainVars>>

\* --------------------------------------------------------------- Write
\* start_copy: "if self.ready()" is false, write_files is not called
skip_write ==
    /\ PoolAlive
    /\ wpc = "sc_write"
    /\ ~ready(fs)
    /\ hist' = [hist EXCEPT !.quorum = "failed"]
    /\ wpc' = "sc_check"
    /\ UNCHANGED <<args, libVars, fmVars, cfg, next_index, fs, src, disk, pre, manifest, outq, mainVars>>

InProgress(st) ==
    [st EXCEPT !.destinations =
        [d \in DOMAIN st.destinations |-> [st.destinations[d] EXCEPT !.status = IN_PROGRESS]]]

Closed(st) ==
    [st EXCEPT !.destinations =
        [d \in DOMAIN st.destinations |-> [st.destinations[d] EXCEPT !.handler = FALSE]]]

\* every block reaches every destination; bad is the set of destinations whose
\* medium stores something else than what was written
WriteAll(bad) ==
    /\ fs' = Closed([InProgress(fs) EXCEPT
                 !.checksum = HashBlocks(HashNew(fs.algorithm), src.content)])
    /\ disk' = [d \in Dests |->
                 [disk[d] EXCEPT !.data =
                     File(IF d \in bad THEN Corrupt(src.content) ELSE src.content)]]
    /\ wpc' = "sc_check"

\* writing block b to destination f raises: the destinations before f have
\* block b, f and the ones after it do not, and no further block is read
WriteFails(b, f) ==
    /\ fs' = Closed([InProgress(fs) EXCEPT !.destinations[f].status = DATA_WRITE_FAILURE])
    /\ disk' = [d \in Dests |->
                 [disk[d] EXCEPT !.data =
                     File(Take(src.content, IF d < f THEN b ELSE b - 1))]]
    /\ wpc' = "sc_check"

\* open(self.source) or in_file.read raises after b blocks: nothing in
\* write_files catches it and the exception leaves start_copy
SourceFails(b) ==
    /\ fs' = InProgress(fs)
    /\ disk' = [d \in Dests |-> [disk[d] EXCEPT !.data = File(Take(src.content, b))]]
    /\ wpc' = "raised"

write_files ==
    /\ PoolAlive
    /\ wpc = "sc_write"
    /\ ready(fs)
    /\ \/ \E bad \in SUBSET Dests : (bad # {} => src.content # <<>>) /\ WriteAll(bad)
       \/ \E b \in 1 .. Len(src.content), f \in Dests : WriteFails(b, f)
       \/ \E b \in 0 .. Len(src.content) : SourceFails(b)
    /\ hist' = [hist EXCEPT !.quorum = "passed",
                             !.write_fault = DATA_WRITE_FAILURE \in Statuses(fs')]
    /\ UNCHANGED <<args, libVars, fmVars, cfg, next_index, src, pre, manifest, outq, mainVars>>

\* -------------------------------------------------------------- Verify
\* start_copy: "if not self.failed()" is false, check_files is not called
skip_check ==
    /\ PoolAlive
    /\ wpc = "sc_check"
    /\ failed(fs)
    /\ wpc' = "sc_undo"
    /\ UNCHANGED <<args, libVars, fmVars, cfg, next_index, fs, src, disk, pre, hist, manifest, outq, mainVars>>

\* a text is a sequence of characters; a digest is written with hexdigest
hexdigest(h) == <<ToString(h)>>

\* the line write_checksum writes, "{0} *\\{1}\n".format(cs_value, data_path),
\* without its newline (a text file is kept as the sequence of its lines)
ChecksumLine(cs_value, data_path) == hexdigest(cs_value) \o <<" ", "*", "\\">> \o data_path

\* the file of task f lies directly under the staging directory: its
\* basename and its path relative to a destination root are the same text
PathOf(f) == <<ToString(f)>>

SidecarOutcomes == {"ok", "open_fails", "write_fails"}
ManifestOutcomes == {"ok", "fails"}

\* as CheckedDest, without the "if status == IN_PROGRESS" guard of the last
\* assignment: STAGED overwrites a failed sidecar or manifest write
CheckedDest_Unguarded(v, dk, checksum, sc, mf) ==
    LET next_cs == hash_file(dk.data, default_algorithm)[1]
        v1 == [v EXCEPT !.checksum_value = next_cs]
    IN  IF next_cs # checksum THEN [v1 EXCEPT !.status = CHECKSUM_MISMATCH]
        ELSE [v1 EXCEPT !.status = STAGED]

\* the body of the loop of check_files for one destination: v its entry,
\* dk its files, sc and mf what happens to the sidecar and manifest writes
CheckedDest(v, dk, checksum, sc, mf) ==
    LET next_cs == hash_file(dk.data, default_algorithm)[1]
        v1 == [v EXCEPT !.checksum_value = next_cs]
    IN  IF next_cs # checksum THEN [v1 EXCEPT !.status = CHECKSUM_MISMATCH]
        ELSE IF ~v.checksum_file /\ ~v.manifest_file THEN [v1 EXCEPT !.status = STAGED]
        ELSE IF (v.checksum_file /\ (sc # "ok" \/ dk.sidecar.exists))
                  \/ (v.manifest_file /\ mf # "ok")
             THEN [v1 EXCEPT !.status = CHECKSUM_WRITE_FAILURE]
             ELSE [v1 EXCEPT !.status = IF v.status = IN_PROGRESS THEN STAGED ELSE v.status]

Matches(v, dk, checksum) == hash_file(dk.data, default_algorithm)[1] = checksum

CheckedDisk(v, dk, checksum, f, sc) ==
    IF Matches(v, dk, checksum) /\ v.checksum_file /\ ~dk.sidecar.exists /\ sc # "open_fails"
    THEN [dk EXCEPT !.sidecar =
            File(IF sc = "ok"
                 THEN <<ChecksumLine(hash_file(dk.data, default_algorithm)[1], PathOf(f))>>
                 ELSE <<>>)]
    ELSE dk

CheckedManifest(v, dk, checksum, f, mf, lines) ==
    IF Matches(v, dk, checksum) /\ v.manifest_file /\ mf = "ok"
    THEN Append(lines, ChecksumLine(hash_file(dk.data, default_algorithm)[1], PathOf(f)))
    ELSE lines

\* hash_file raises at destination r (r = cfg.n + 1: at none): the
\* destinations before r have been checked, the exception leaves start_copy
check_files ==
    /\ PoolAlive
    /\ wpc = "sc_check"
    /\ ~failed(fs)
    /\ IF fs.checksum = None
       THEN /\ wpc' = "sc_undo"
            /\ UNCHANGED <<fs, src, disk, manifest>>
       ELSE \E r \in 1 .. cfg.n + 1 :
            \* only an attempted write can fail
            \E sc \in {f \in [Dests -> SidecarOutcomes] : \A d \in Dests :
                        f[d] # "ok" => d < r /\ Matches(fs.destinations[d], disk[d], fs.checksum)},
               mf \in {f \in [Dests -> ManifestOutcomes] : \A d \in Dests :
                        f[d] # "ok" => /\ d < r /\ cfg.manifests
                                       /\ Matches(fs.destinations[d], disk[d], fs.checksum)},
               keep_source \in {k \in BOOLEAN : k => r > cfg.n} :
            LET new == [fs EXCEPT !.destinations = [d \in Dests |->
                          IF d < r
                          THEN CheckedDest(fs.destinations[d], disk[d], fs.checksum,
                                           sc[d], mf[d])
                          ELSE fs.destinations[d]]]
            IN  /\ fs' = new
                /\ disk' = [d \in Dests |->
                             IF d < r
                             THEN CheckedDisk(fs.destinations[d], disk[d], fs.checksum,
                                              fs.source, sc[d])
                             ELSE disk[d]]
                /\ manifest' = [d \in Dests |->
                             IF d < r
                             THEN CheckedManifest(fs.destinations[d], disk[d], fs.checksum,
                                                  fs.source, mf[d], manifest[d])
                             ELSE manifest[d]]
                /\ IF r <= cfg.n
                   THEN wpc' = "raised" /\ src' = src
                   ELSE /\ wpc' = "sc_undo"
                        /\ src' = IF completed(new) /\ new.remove_original /\ ~keep_source
                                  THEN [src EXCEPT !.exists = FALSE] ELSE src
    /\ hist' = [hist EXCEPT !.write_fault = @ \/ CHECKSUM_WRITE_FAILURE \in Statuses(fs')]
    /\ UNCHANGED <<args, libVars, fmVars, cfg, next_index, pre, outq, mainVars>>

\* ------------------------------------------------------------ Rollback
\* start_copy: "if self.failed()" is false, undo_staging is not called
skip_undo ==
    /\ PoolAlive
    /\ wpc = "sc_undo"
    /\ ~failed(fs)
    /\ wpc' = "sc_ret"
    /\ UNCHANGED <<args, libVars, fmVars, cfg, next_index, fs, src, disk, pre, hist, manifest, outq, mainVars>>

\* os.remove raises for a file that is not there, or when the removal fails
remove_raises(file, fail) == ~file.exists \/ fail

\* as UndoneDest, with UNSTAGED given to every destination whose files went
UndoneDest_AllUnstaged(v, dk, rd, rs) ==
    IF remove_raises(dk.data, rd) \/ remove_raises(dk.sidecar, rs)
    THEN [v EXCEPT !.status = COULD_NOT_REMOVE, !.handler = FALSE]
    ELSE [v EXCEPT !.handler = FALSE, !.status = UNSTAGED]

\* as UndoneDest, with STAGED missing from the states that become UNSTAGED
UndoneDest_KeepsStaged(v, dk, rd, rs) ==
    IF ~dk.data.exists \/ rd \/ ~dk.sidecar.exists \/ rs
    THEN [v EXCEPT !.status = COULD_NOT_REMOVE, !.handler = FALSE]
    ELSE [v EXCEPT !.handler = FALSE,
                   !.status = IF v.status \in {READY, IN_PROGRESS}
                              THEN UNSTAGED ELSE v.status]

\* the body of the loop of undo_staging for one destination; rd and rs say
\* whether removing the data file and the sidecar fails
UndoneDest(v, dk, rd, rs) ==
    IF remove_raises(dk.data, rd) \/ remove_raises(dk.sidecar, rs)
    THEN [v EXCEPT !.status = COULD_NOT_REMOVE, !.handler = FALSE]
    ELSE [v EXCEPT !.handler = FALSE,
                   !.status = IF v.status \in {READY, IN_PROGRESS, STAGED}
                              THEN UNSTAGED ELSE v.status]

\* as UndoneDisk, without os.remove(v["checksum_file"])
UndoneDisk_KeepsSidecar(dk, rd, rs) ==
    IF ~dk.data.exists \/ rd THEN dk
    ELSE [dk EXCEPT !.data = NoFile]

UndoneDisk(dk, rd, rs) ==
    IF remove_raises(dk.data, rd) THEN dk
    ELSE IF remove_raises(dk.sidecar, rs) THEN [dk EXCEPT !.data = NoFile]
    ELSE [dk EXCEPT !.data = NoFile, !.sidecar = NoFile]

undo_staging ==
    /\ PoolAlive
    /\ wpc = "sc_undo"
    /\ failed(fs)
    /\ \E rd \in {f \in [Dests -> BOOLEAN] : \A d \in Dests : f[d] => disk[d].data.exists} :
       \E rs \in {f \in [Dests -> BOOLEAN] :
                    \A d \in Dests : f[d] => disk[d].sidecar.exists /\ ~rd[d]} :
        /\ fs' = [fs EXCEPT !.destinations =
                    [d \in Dests |-> UndoneDest(fs.destinations[d], disk[d], rd[d], rs[d])]]
        /\ disk' = [d \in Dests |-> UndoneDisk(disk[d], rd[d], rs[d])]
    /\ wpc' = "sc_ret"
    /\ UNCHANGED <<args, libVars, fmVars, cfg, next_index, src, pre, hist, manifest, outq, mainVars>>

\* ------------------------------------------------------------ _stage_file
\* as FileStatus, with failed() asked before aborted()
FileStatus_FailedFirst(st) ==
    IF completed(st) THEN "staged"
    ELSE IF failed(st) THEN "failed"
    ELSE IF aborted(st) THEN "aborted"
    ELSE "unknown"

FileStatus(st) ==
    IF completed(st) THEN "staged"
    ELSE IF aborted(st) THEN "aborted"
    ELSE IF failed(st) THEN "failed"
    ELSE "unknown"

DestStatuses(st) == [d \in DOMAIN st.destinations |-> st.destinations[d].status]

\* start_copy has returned: _stage_file builds the result, the pool sends it
stage_file_return ==
    /\ PoolAlive
    /\ wpc = "sc_ret"
    /\ outq' = Append(outq, [file |-> fs.source, status |-> FileStatus(fs),
                             destinations |-> DestStatuses(fs),
                             write_fault |-> hist.write_fault])
    /\ BecomeIdle
    /\ UNCHANGED <<args, libVars, fmVars, cfg, next_index, mainVars>>

\* an exception left _stage_file: the pool sends the exception as the result
\* of the task and the worker goes on with the next task
stage_file_raise ==
    /\ PoolAlive
    /\ wpc = "raised"
    /\ outq' = Append(outq, [file |-> fs.source, status |-> "exception",
                             destinations |-> DestStatuses(fs),
                             write_fault |-> hist.write_fault])
    /\ BecomeIdle
    /\ UNCHANGED <<args, libVars, fmVars, cfg, next_index, mainVars>>

\* ------------------------------------------------------------- stage_files
WriteFailureStates == {DATA_WRITE_FAILURE, CHECKSUM_WRITE_FAILURE}

write_failed(new_results) ==
    \E d \in DOMAIN new_results : new_results[d] \in WriteFailureStates

NextCount(count, new_results) == IF write_failed(new_results) THEN count + 1 ELSE 0

\* _add_to_results: the dictionary after the result r has been added
AddedResults(res, r) ==
    [res EXCEPT ![r.status] = Append(@, [path |-> r.file]),
                !.consecutive_failures = NextCount(@, r.destinations)]

\* as Terminate, with >= written for >
Terminate_AtThreshold(res) == res.consecutive_failures >= res.failure_threshold

Terminate(res) == res.consecutive_failures > res.failure_threshold

\* one turn of the loop over pool.imap_unordered: the next result is added,
\* and the loop is left when _add_to_results says so
add_to_results ==
    /\ mpc = "loop"
    /\ outq # <<>>
    /\ Head(outq).status # "exception"
    /\ results' = AddedResults(results, Head(outq))
    /\ outq' = Tail(outq)
    /\ terminate' = Terminate(results')
    /\ mpc' = IF terminate' THEN "show" ELSE "loop"
    /\ UNCHANGED <<args, libVars, fmVars, cfg, next_index, workerVars, staging_interrupted>>

\* the next result is an exception: the iterator raises it inside stage_files,
\* which has no handler for it
loop_raises ==
    /\ mpc = "loop"
    /\ outq # <<>>
    /\ Head(outq).status = "exception"
    /\ outq' = Tail(outq)
    /\ mpc' = "raised"
    /\ UNCHANGED <<args, libVars, fmVars, cfg, next_index, workerVars, results, terminate, staging_interrupted>>

\* the generator is exhausted and every result has been handled
loop_ends ==
    /\ mpc = "loop"
    /\ outq = <<>>
    /\ wpc = "idle"
    /\ next_index > NumFiles
    /\ mpc' = "show"
    /\ UNCHANGED <<args, libVars, fmVars, cfg, next_index, workerVars, outq, results, terminate,
                   staging_interrupted>>

show_results ==
    /\ mpc = "show"
    /\ staging_interrupted' = (results.consecutive_failures > results.failure_threshold)
    /\ mpc' = "done"
    /\ UNCHANGED <<args, libVars, fmVars, cfg, next_index, workerVars, outq, results, terminate>>

\* main up to the dispatch of the action: a command line with a directory
\* that does not exist is answered with the help text
has_dir == mpc = "main" \/ fm.action # COMPARE_MANIFESTS
main ==
    /\ mpc = "main" \/ fpc = "main"
    /\ LET go == IF has_dir /\ ~args.dir THEN "returned" ELSE "start"
       IN  IF mpc = "main" THEN mpc' = go /\ fpc' = fpc
                           ELSE fpc' = go /\ mpc' = mpc
    /\ UNCHANGED <<args, libVars, cfg, next_index, workerVars, outq, results, terminate,
                   staging_interrupted, os_sep, fm, data, sidecars, manifest_file, todo, fq,
                   results_cache, report, prev, other_paths>>

\* stage_files up to its loop: it returns when the number of trees or of
\* manifests is neither zero nor the number of targets
numbers_differ_TreesOnly ==
    args.targets # args.trees /\ args.trees > 0
numbers_differ ==
    \/ args.targets # args.trees /\ args.trees > 0
    \/ args.targets # args.manifests /\ args.manifests > 0
stage_files ==
    /\ mpc = "start"
    /\ mpc' = IF numbers_differ THEN "returned" ELSE "loop"
    /\ UNCHANGED <<args, libVars, fmVars, cfg, next_index, workerVars, outq, results, terminate,
                   staging_interrupted>>

Next ==
    \/ main
    \/ stage_files
    \/ next_file
    \/ open_destination_files
    \/ skip_write
    \/ write_files
    \/ skip_check
    \/ check_files
    \/ skip_undo
    \/ undo_staging
    \/ stage_file_return
    \/ stage_file_raise
    \/ add_to_results
    \/ loop_raises
    \/ loop_ends
    \/ show_results

Spec == Init /\ [][Next]_vars

\* ================================================= FileManager pipelines
\* no staging run: the staging variables rest
StagingOff ==
    /\ cfg = [n |-> 1, manifests |-> FALSE, max_failures |-> 0]
    /\ next_index = 1
    /\ Idle
    /\ outq = <<>>
    /\ results = [staged |-> <<>>, failed |-> <<>>, aborted |-> <<>>, unknown |-> <<>>,
                  consecutive_failures |-> 0, failure_threshold |-> 0]
    /\ terminate = FALSE
    /\ mpc = "off"
    /\ staging_interrupted = FALSE

\* ------------------------------------------------------------- paths
RECURSIVE JoinPath(_, _)
JoinPath(p, sep) ==
    IF Len(p) = 1 THEN p[1] ELSE p[1] \o <<sep>> \o JoinPath(Tail(p), sep)

\* os.path.relpath(file, root) of the file at p under root, and its basename
relpath(p) == JoinPath(p, os_sep)
basename(p) == p[Len(p)]

\* "*{sep}{path}".format(sep=os.sep, path=rel_path)
file_key(rel_path) == <<"*", os_sep>> \o rel_path

\* the files scan_tree yields for the primary tree
DataFiles == {p \in Paths : data[p].exists}

\* hash_file opens the file: OSError for a file that cannot be read
hash_raises(file) == ~file.readable

\* a result of a pool task as the loop receives it: a tuple of len items, or
\* the exception that left the task
Result(path, status, size) == [path |-> path, status |-> status, size |-> size, len |-> 3]
Raised(path) == [path |-> path, status |-> "exception", size |-> None, len |-> 0]

\* the workers live while the pipeline runs one of its imap_unordered loops
WorkersAlive == fpc \in {"loop", "additional"}

\* ------------------------------------------------------ ReportHandler
\* the data of a row: the path, the size or None, and for a comparison the
\* result at every root, in the order of the dictionary
Row(path, size) == [path |-> path, size |-> size, roots |-> <<>>]

\* "[k for k, v in data.items() if v is not None]"
Columns(row) ==
    {"path"} \cup (IF row.size # None THEN {"size"} ELSE {})
             \cup {row.roots[i].root : i \in DOMAIN row.roots}

\* add_result: the row goes to the output file of its kind, the count of the
\* kind grows by one and its size by the size of the row, if it has one
\* when the kind has no output file yet, add_out_file creates it and writes
\* its header: the columns are the keys of the first row of the kind
add_result(rep, description, row) ==
    [rep EXCEPT ![description] =
        [rows |-> Append(@.rows, row),
         count |-> @.count + 1,
         size |-> IF row.size # None THEN @.size + row.size ELSE @.size,
         columns |-> IF @.columns = {} THEN Columns(row) ELSE @.columns,
         headers |-> IF @.columns = {} THEN @.headers + 1 ELSE @.headers]]

\* csv.DictWriter.writerow raises ValueError for a row with a key that is
\* not a column of the file
write_raises(rep, description, row) ==
    rep[description].columns # {} /\ ~(Columns(row) \subseteq rep[description].columns)

\* a report while rows are added to it: raised says that add_result has raised
Written(rep) == [report |-> rep, raised |-> FALSE]

\* add_result, or the exception that leaves it and what follows it
TryAddResult(w, description, row) ==
    IF w.raised THEN w
    ELSE IF write_raises(w.report, description, row) THEN [w EXCEPT !.raised = TRUE]
    ELSE [w EXCEPT !.report = add_result(@, description, row)]

\* "for next_path, next_status, next_size in results_cache: add_result(...)"
RECURSIVE AddCached(_, _)
AddCached(w, cache) ==
    IF cache = <<>> THEN w
    ELSE AddCached(TryAddResult(w, Head(cache).status, Row(Head(cache).path, Head(cache).size)),
                   Tail(cache))

\* as CacheResult, flushing only a cache that has grown beyond cache_size
CacheResult_FlushLate ==
    /\ fq # <<>>
    /\ Head(fq).status # "exception"
    /\ Head(fq).len = 3
    /\ LET cache == Append(results_cache, Head(fq))
           w == AddCached(Written(report), cache)
       IN  IF Len(cache) > fm.cache_size
           THEN /\ report' = w.report
                /\ results_cache' = IF w.raised THEN cache ELSE <<>>
                /\ fpc' = IF w.raised THEN "raised" ELSE fpc
           ELSE report' = report /\ results_cache' = cache /\ fpc' = fpc
    /\ fq' = Tail(fq)

\* one turn of a pipeline's loop: the result is cached, and a full cache is
\* written to the report and emptied
CacheResult ==
    /\ fq # <<>>
    /\ Head(fq).status # "exception"
    /\ Head(fq).len = 3
    /\ LET cache == Append(results_cache, Head(fq))
           w == AddCached(Written(report), cache)
       IN  IF Len(cache) >= fm.cache_size
           THEN /\ report' = w.report
                /\ results_cache' = IF w.raised THEN cache ELSE <<>>
                /\ fpc' = IF w.raised THEN "raised" ELSE fpc
           ELSE report' = report /\ results_cache' = cache /\ fpc' = fpc
    /\ fq' = Tail(fq)

\* the loop's iterator raises the exception that left a task, or the loop
\* cannot unpack the result into (file_path, status, file_size)
LoopRaises ==
    /\ fq # <<>>
    /\ Head(fq).status = "exception" \/ Head(fq).len # 3
    /\ fq' = Tail(fq)
    /\ fpc' = "raised"

\* ------------------------------------------------------------ Create
\* "{cs} *{sep}{path}\n".format(cs=checksum, sep=os.sep, path=...)
CreateLine(cs, path) == hexdigest(cs) \o <<" ", "*", os_sep>> \o path

\* the sidecar of the file at p under the algorithm of the run
OutFile(p) == <<p, fm.algorithm>>

\* _create_checksum_or_skip_file reaches the manifest for the file at p
Added(p, sc) ==
    /\ ~sidecars[OutFile(p)].exists
    /\ ~hash_raises(data[p])
    /\ sc = "ok"

\* as CreatedResult, with the os.path.exists(out_file) test left out
CreatedResult_NoSkip(p, sc) ==
    IF Added(p, sc) \/ (sidecars[OutFile(p)].exists /\ ~hash_raises(data[p]) /\ sc = "ok")
    THEN Result(relpath(p), ADDED, hash_file(data[p], fm.algorithm)[2])
    ELSE Result(relpath(p), FAILED, None)

\* what _create_checksum_or_skip_file returns for the file at p when the
\* sidecar write goes as sc says
CreatedResult(p, sc) ==
    IF sidecars[OutFile(p)].exists THEN Result(relpath(p), SKIPPED, None)
    ELSE IF Added(p, sc)
         THEN Result(relpath(p), ADDED, hash_file(data[p], fm.algorithm)[2])
         ELSE Result(relpath(p), FAILED, None)

\* the sidecar _create_checksum_or_skip_file leaves for the file at p
CreatedSidecar(p, sc) ==
    IF sidecars[OutFile(p)].exists \/ hash_raises(data[p]) \/ sc = "open_fails"
    THEN sidecars[OutFile(p)]
    ELSE IF sc = "write_fails" THEN Present(<<>>)
    ELSE Present(<<CreateLine(hash_file(data[p], fm.algorithm)[1], basename(p))>>)

\* the manifest after the line of the file at p has been appended
AppendedManifest(p) ==
    Present(Append(manifest_file.content,
                   CreateLine(hash_file(data[p], fm.algorithm)[1], relpath(p))))

\* create_checksums up to its loop: the pool is made and given the files of
\* the primary tree
create_checksums ==
    /\ fpc = "start"
    /\ fm.action = CREATE
    /\ todo' = DataFiles
    /\ fpc' = "loop"
    /\ UNCHANGED <<args, libVars, stageVars, other_paths, os_sep, fm, data, sidecars, manifest_file, fq, results_cache,
                   report, prev>>

\* a worker runs _create_checksum_or_skip_file for one of the files
create_checksum_or_skip_file ==
    /\ WorkersAlive
    /\ fm.action = CREATE
    /\ \E p \in todo :
       \E sc \in {o \in SidecarOutcomes : o # "ok" => ~sidecars[OutFile(p)].exists
                                                      /\ ~hash_raises(data[p])} :
       \E mf \in {o \in ManifestOutcomes : o # "ok" => fm.manifest /\ Added(p, sc)} :
        /\ todo' = todo \ {p}
        /\ sidecars' = [sidecars EXCEPT ![OutFile(p)] = CreatedSidecar(p, sc)]
        /\ manifest_file' = IF Added(p, sc) /\ fm.manifest /\ mf = "ok"
                            THEN AppendedManifest(p) ELSE manifest_file
        /\ fq' = Append(fq, IF mf = "ok" THEN CreatedResult(p, sc) ELSE Raised(relpath(p)))
    /\ UNCHANGED <<args, libVars, stageVars, other_paths, os_sep, fm, data, results_cache, report, fpc, prev>>

\* one turn of the loop of create_checksums
create_loop ==
    /\ fpc = "loop"
    /\ fm.action = CREATE
    /\ \/ CacheResult
       \/ LoopRaises /\ UNCHANGED <<results_cache, report>>
    /\ UNCHANGED <<args, libVars, stageVars, other_paths, os_sep, fm, data, sidecars, manifest_file, todo, prev>>

\* the loop of create_checksums is over: the rest of the cache is written,
\* the report closed and shown
create_finish ==
    /\ fpc = "loop"
    /\ fm.action = CREATE
    /\ todo = {} /\ fq = <<>>
    /\ LET w == AddCached(Written(report), results_cache)
       IN  /\ report' = w.report
           /\ results_cache' = IF w.raised THEN results_cache ELSE <<>>
           /\ fpc' = IF w.raised THEN "raised" ELSE "done"
    /\ UNCHANGED <<args, libVars, stageVars, other_paths, os_sep, fm, data, sidecars, manifest_file, todo, fq, prev>>

\* Create is run a second time with the same arguments over the same trees
create_again ==
    /\ fpc \in {"done", "raised"}
    /\ fm.action = CREATE
    /\ fm.run = 1
    /\ fm' = [fm EXCEPT !.run = 2]
    /\ prev' = [report |-> report, sidecars |-> sidecars, manifest_file |-> manifest_file]
    /\ todo' = {}
    /\ fq' = <<>>
    /\ results_cache' = <<>>
    /\ report' = NewReport
    /\ fpc' = "start"
    /\ UNCHANGED <<args, libVars, stageVars, other_paths, os_sep, data, sidecars, manifest_file>>

\* ----------------------------------------------------- ValidateManifest
\* the position of the first c in text, 0 if there is none
Find(text, c) ==
    IF \E i \in DOMAIN text : text[i] = c
    THEN CHOOSE i \in DOMAIN text : text[i] = c /\ \A j \in 1 .. i - 1 : text[j] # c
    ELSE 0

\* line.rstrip('\r\n').split(' ', 1)
split_once(line) ==
    LET i == Find(line, " ")
    IN  IF i = 0 THEN <<line>>
        ELSE <<SubSeq(line, 1, i - 1), SubSeq(line, i + 1, Len(line))>>

\* iterate_manifest: the lines it yields, by their position in the file
iterate_manifest == {i \in DOMAIN manifest_file.content :
                        Len(split_once(manifest_file.content[i])) > 1}

\* the characters that separate the components of a path on the platform
Separators == IF os_sep = "\\" THEN {"\\", "/"} ELSE {"/"}

\* the components of a path text; cur is the component being read
RECURSIVE Components(_, _)
Components(text, cur) ==
    LET done == IF cur = <<>> THEN <<>> ELSE <<cur>>
    IN  IF text = <<>> THEN done
        ELSE IF Head(text) \in Separators THEN done \o Components(Tail(text), <<>>)
        ELSE Components(Tail(text), Append(cur, Head(text)))

\* comps names a directory of the primary tree (the root included)
IsDirectory(comps) ==
    \E p \in DataFiles : Len(comps) < Len(p) /\ SubSeq(p, 1, Len(comps)) = comps

\* what lies in the primary tree at the components comps: a data file, a
\* directory (which exists and cannot be read as a file) or nothing
FileAt(comps) ==
    IF comps \in Paths THEN data[comps]
    ELSE IF IsDirectory(comps) THEN Unreadable(<<>>)
    ELSE Absent

\* the file at rel_path.replace('*', self.primary_path), primary_path ending
\* with os.sep; a path without the placeholder is not under the primary root
FullPathFile(rel_path) ==
    IF rel_path # <<>> /\ Head(rel_path) = "*" THEN FileAt(Components(Tail(rel_path), <<>>))
    ELSE Absent

\* _normalise_path reads file_path[0]: IndexError for the empty path
normalise_raises(file_path) == file_path = <<>>

\* VALID or INVALID by the comparison of the digest texts, OSERROR when
\* hash_file raises, MISSING when os.path.exists says no
Validated(path, file, algorithm, original_cs) ==
    IF ~file.exists THEN Result(path, MISSING, None)
    ELSE IF hash_raises(file) THEN Result(path, OSERROR, None)
    ELSE IF hexdigest(hash_file(file, algorithm)[1]) = original_cs
         THEN Result(path, VALID, hash_file(file, algorithm)[2])
         ELSE Result(path, INVALID, hash_file(file, algorithm)[2])

\* _validate_file_with_checksum for the manifest entry (original_cs, rel_path)
validate_file_with_checksum_(entry) ==
    IF normalise_raises(entry[2]) THEN Raised(entry[2])
    ELSE Validated(entry[2], FullPathFile(entry[2]), fm.algorithm, entry[1])

\* count_lines returns i + 1: i is unbound when the file has no line
count_lines_raises(file) == file.content = <<>>

\* validate_manifest up to its first loop
validate_manifest ==
    /\ fpc = "start"
    /\ fm.action = VALIDATE_MANIFEST
    /\ IF ~manifest_file.exists \/ (fm.count_files /\ count_lines_raises(manifest_file))
       THEN fpc' = "raised" /\ todo' = todo
       ELSE fpc' = "loop" /\ todo' = iterate_manifest
    /\ UNCHANGED <<args, libVars, stageVars, other_paths, os_sep, fm, data, sidecars, manifest_file, fq, results_cache,
                   report, prev>>

\* a worker runs _validate_file_with_checksum for one of the manifest entries
validate_file_with_checksum ==
    /\ fpc = "loop"
    /\ fm.action = VALIDATE_MANIFEST
    /\ \E i \in todo :
        /\ todo' = todo \ {i}
        /\ fq' = Append(fq, validate_file_with_checksum_(split_once(manifest_file.content[i])))
    /\ UNCHANGED <<args, libVars, stageVars, other_paths, os_sep, fm, data, sidecars, manifest_file, results_cache,
                   report, fpc, prev>>

\* one turn of the first loop of validate_manifest
validate_manifest_loop ==
    /\ fpc = "loop"
    /\ fm.action = VALIDATE_MANIFEST
    /\ \/ CacheResult
       \/ LoopRaises /\ UNCHANGED <<results_cache, report>>
    /\ UNCHANGED <<args, libVars, stageVars, other_paths, os_sep, fm, data, sidecars, manifest_file, todo, prev>>

\* the first loop is over: the rest of the cache is written and the pool is
\* given the files of the primary tree
validate_manifest_flush ==
    /\ fpc = "loop"
    /\ fm.action = VALIDATE_MANIFEST
    /\ todo = {} /\ fq = <<>>
    /\ LET w == AddCached(Written(report), results_cache)
       IN  /\ report' = w.report
           /\ results_cache' = IF w.raised THEN results_cache ELSE <<>>
           /\ todo' = IF w.raised THEN todo ELSE DataFiles
           /\ fpc' = IF w.raised THEN "raised" ELSE "additional"
    /\ UNCHANGED <<args, libVars, stageVars, other_paths, os_sep, fm, data, sidecars, manifest_file, fq, prev>>

\* text occurs in some line of the file (mmap.find over the whole file)
Occurs(text, file) ==
    \E n \in DOMAIN file.content :
        \E i \in 1 .. Len(file.content[n]) - Len(text) + 1 :
            SubSeq(file.content[n], i, i + Len(text) - 1) = text

\* rel_path.replace("\\", "/")
ForwardSlashes(rel_path) ==
    [i \in DOMAIN rel_path |-> IF rel_path[i] = "\\" THEN "/" ELSE rel_path[i]]

\* mmap.mmap(fileno, 0) raises ValueError for a file of no bytes
mmap_raises(file) == file.content = <<>>

\* _check_for_file_in_manifest for the file at p: (None, None) when one of the
\* two forms of its path occurs in the manifest
check_for_file_in_manifest_(p) ==
    IF mmap_raises(manifest_file) THEN Raised(relpath(p))
    ELSE IF \/ Occurs(file_key(relpath(p)), manifest_file)
            \/ Occurs(<<"*", "/">> \o ForwardSlashes(relpath(p)), manifest_file)
         THEN [path |-> <<>>, status |-> "None", size |-> None, len |-> 2]
         ELSE [path |-> relpath(p), status |-> ADDITIONAL, size |-> None, len |-> 2]

\* a worker runs _check_for_file_in_manifest for one of the data files
check_for_file_in_manifest ==
    /\ fpc = "additional"
    /\ fm.action = VALIDATE_MANIFEST
    /\ \E p \in todo :
        /\ todo' = todo \ {p}
        /\ fq' = Append(fq, check_for_file_in_manifest_(p))
    /\ UNCHANGED <<args, libVars, stageVars, other_paths, os_sep, fm, data, sidecars, manifest_file, results_cache,
                   report, fpc, prev>>

\* one turn of a loop that looks for additional files: a result with a status
\* is added to the report at once, an exception leaves the pipeline
AddAdditional ==
    /\ fq # <<>>
    /\ IF Head(fq).status = "exception"
       THEN fpc' = "raised" /\ report' = report
       ELSE LET w == IF Head(fq).status # "None"
                     THEN TryAddResult(Written(report), Head(fq).status,
                                       Row(file_key(Head(fq).path), None))
                     ELSE Written(report)
            IN  /\ report' = w.report
                /\ fpc' = IF w.raised THEN "raised" ELSE fpc
    /\ fq' = Tail(fq)

\* one turn of the second loop of validate_manifest
validate_manifest_additional ==
    /\ fpc = "additional"
    /\ fm.action = VALIDATE_MANIFEST
    /\ AddAdditional
    /\ UNCHANGED <<args, libVars, stageVars, other_paths, os_sep, fm, data, sidecars, manifest_file, todo,
                   results_cache, prev>>

\* the second loop is over: the report is closed and shown
validate_manifest_finish ==
    /\ fpc = "additional"
    /\ fm.action = VALIDATE_MANIFEST
    /\ todo = {} /\ fq = <<>>
    /\ fpc' = "done"
    /\ UNCHANGED <<args, libVars, stageVars, other_paths, os_sep, fm, data, sidecars, manifest_file, todo, fq,
                   results_cache, report, prev>>

\* --------------------------------------------------------- ValidateTree
\* cs_file.read().rstrip('\r\n').split(' ')[0] for a sidecar of at most one line
first_field(file) ==
    IF file.content = <<>> THEN <<>> ELSE split_once(file.content[1])[1]

\* the files scan_tree yields for the checksum tree: <path>.<algorithm>
SidecarFiles == {k \in DOMAIN sidecars : sidecars[k].exists}

\* as validate_checksum_file_, returning a triple when the sidecar cannot be read
validate_checksum_file_triple(k) ==
    IF ~sidecars[k].readable
    THEN Result(JoinPath(k[1], os_sep) \o <<".", k[2]>>, OSERROR, None)
    ELSE Validated(file_key(relpath(k[1])), data[k[1]], k[2], first_field(sidecars[k]))

\* _validate_checksum_file for the sidecar k = <<path, algorithm>>: a pair
\* (path of the sidecar, OSERROR) when the sidecar cannot be read, else the
\* triple for the data file named by the sidecar's path without its extension
validate_checksum_file_(k) ==
    IF ~sidecars[k].readable
    THEN [path |-> JoinPath(k[1], os_sep) \o <<".", k[2]>>, status |-> OSERROR,
          size |-> None, len |-> 2]
    ELSE Validated(file_key(relpath(k[1])), data[k[1]], k[2], first_field(sidecars[k]))

\* validate_tree up to its first loop
validate_tree ==
    /\ fpc = "start"
    /\ fm.action = VALIDATE_TREE
    /\ IF ~args.tree
       THEN fpc' = "raised" /\ todo' = todo
       ELSE fpc' = "loop" /\ todo' = SidecarFiles
    /\ UNCHANGED <<args, libVars, stageVars, other_paths, os_sep, fm, data, sidecars, manifest_file, fq, results_cache,
                   report, prev>>

\* a worker runs _validate_checksum_file for one of the sidecars
validate_checksum_file ==
    /\ fpc = "loop"
    /\ fm.action = VALIDATE_TREE
    /\ \E k \in todo :
        /\ todo' = todo \ {k}
        /\ fq' = Append(fq, validate_checksum_file_(k))
    /\ UNCHANGED <<args, libVars, stageVars, other_paths, os_sep, fm, data, sidecars, manifest_file, results_cache,
                   report, fpc, prev>>

\* one turn of the first loop of validate_tree
validate_tree_loop ==
    /\ fpc = "loop"
    /\ fm.action = VALIDATE_TREE
    /\ \/ CacheResult
       \/ LoopRaises /\ UNCHANGED <<results_cache, report>>
    /\ UNCHANGED <<args, libVars, stageVars, other_paths, os_sep, fm, data, sidecars, manifest_file, todo, prev>>

\* the first loop is over: the rest of the cache is written and the pool is
\* given the files of the primary tree
validate_tree_flush ==
    /\ fpc = "loop"
    /\ fm.action = VALIDATE_TREE
    /\ todo = {} /\ fq = <<>>
    /\ LET w == AddCached(Written(report), results_cache)
       IN  /\ report' = w.report
           /\ results_cache' = IF w.raised THEN results_cache ELSE <<>>
           /\ todo' = IF w.raised THEN todo ELSE DataFiles
           /\ fpc' = IF w.raised THEN "raised" ELSE "additional"
    /\ UNCHANGED <<args, libVars, stageVars, other_paths, os_sep, fm, data, sidecars, manifest_file, fq, prev>>

\* as check_for_cs_file_, looking only for the sidecar of the default algorithm
check_for_cs_file_default(p) ==
    IF sidecars[<<p, default_algorithm>>].exists
    THEN [path |-> <<>>, status |-> "None", size |-> None, len |-> 2]
    ELSE [path |-> relpath(p), status |-> ADDITIONAL, size |-> None, len |-> 2]

\* _check_for_cs_file for the file at p: (None, None) when a sidecar exists
\* under the extension of one of the supported algorithms
check_for_cs_file_(p) ==
    IF \E ext \in algorithms_supported : sidecars[<<p, ext>>].exists
    THEN [path |-> <<>>, status |-> "None", size |-> None, len |-> 2]
    ELSE [path |-> relpath(p), status |-> ADDITIONAL, size |-> None, len |-> 2]

\* a worker runs _check_for_cs_file for one of the data files
check_for_cs_file ==
    /\ fpc = "additional"
    /\ fm.action = VALIDATE_TREE
    /\ \E p \in todo :
        /\ todo' = todo \ {p}
        /\ fq' = Append(fq, check_for_cs_file_(p))
    /\ UNCHANGED <<args, libVars, stageVars, other_paths, os_sep, fm, data, sidecars, manifest_file, results_cache,
                   report, fpc, prev>>

\* one turn of the second loop of validate_tree
validate_tree_additional ==
    /\ fpc = "additional"
    /\ fm.action = VALIDATE_TREE
    /\ AddAdditional
    /\ UNCHANGED <<args, libVars, stageVars, other_paths, os_sep, fm, data, sidecars, manifest_file, todo,
                   results_cache, prev>>

\* the second loop is over: the report is closed and shown
validate_tree_finish ==
    /\ fpc = "additional"
    /\ fm.action = VALIDATE_TREE
    /\ todo = {} /\ fq = <<>>
    /\ fpc' = "done"
    /\ UNCHANGED <<args, libVars, stageVars, other_paths, os_sep, fm, data, sidecars, manifest_file, todo, fq,
                   results_cache, report, prev>>

\* --------------------------------------------------------- CompareTrees
\* the name of the i-th of the other roots
OtherRoot(i) == ToString(i)

\* the files scan_tree yields for the master tree and their path under it
MasterFiles == {k \in DOMAIN sidecars : sidecars[k].exists}
SidecarPath(k) == JoinPath(k[1], os_sep) \o <<".", k[2]>>

\* the result for the sidecar k of the master tree at the other tree
ComparedAt(k, tree) ==
    IF ~tree[k].exists THEN ComparisonResult_MISSING
    ELSE IF ~tree[k].readable THEN ComparisonResult_OSERROR
    ELSE IF first_field(sidecars[k]) = first_field(tree[k]) THEN MATCHED
    ELSE UNMATCHED

\* _compare_checksum_file_to_other_trees for the sidecar k of the master
\* tree: the key of the sidecar and the results dictionary, which holds
\* "ALL" alone when the master sidecar cannot be read
compare_checksum_file_to_other_trees_(k) ==
    [path |-> file_key(SidecarPath(k)),
     status |-> IF ~sidecars[k].readable
                THEN <<[root |-> "ALL", result |-> ComparisonResult_OSERROR]>>
                ELSE [i \in DOMAIN other_paths |->
                        [root |-> OtherRoot(i), result |-> ComparedAt(k, other_paths[i])]],
     size |-> None, len |-> 2]

\* "for k, v in file_status.items(): if v != MATCHED: add_result(v, file_results)"
RECURSIVE AssignFailed(_, _, _)
AssignFailed(w, row, i) ==
    IF i > Len(row.roots) THEN w
    ELSE AssignFailed(IF row.roots[i].result # MATCHED
                      THEN TryAddResult(w, row.roots[i].result, row) ELSE w,
                      row, i + 1)

\* assign_comparison_result: one row under MATCHED when no root fails, else
\* one row for every root that does not match, under the result of the root
assign_comparison_result(w, file_path, file_status) ==
    LET row == [path |-> file_path, size |-> None, roots |-> file_status]
    IN  IF \E i \in DOMAIN file_status : file_status[i].result # MATCHED
        THEN AssignFailed(w, row, 1)
        ELSE TryAddResult(w, MATCHED, row)

\* "for next_path, next_status in results_cache: assign_comparison_result(...)"
RECURSIVE AssignCached(_, _)
AssignCached(w, cache) ==
    IF cache = <<>> THEN w
    ELSE AssignCached(assign_comparison_result(w, Head(cache).path, Head(cache).status),
                      Tail(cache))

\* compare_trees up to its loop
compare_trees ==
    /\ fpc = "start"
    /\ fm.action = COMPARE_TREES
    /\ todo' = MasterFiles
    /\ fpc' = "loop"
    /\ UNCHANGED <<args, libVars, stageVars, other_paths, os_sep, fm, data, sidecars, manifest_file, fq,
                   results_cache, report, prev>>

\* a worker runs _compare_checksum_file_to_other_trees for one of the sidecars
compare_checksum_file_to_other_trees ==
    /\ fpc = "loop"
    /\ fm.action = COMPARE_TREES
    /\ \E k \in todo :
        /\ todo' = todo \ {k}
        /\ fq' = Append(fq, compare_checksum_file_to_other_trees_(k))
    /\ UNCHANGED <<args, libVars, stageVars, other_paths, os_sep, fm, data, sidecars, manifest_file,
                   results_cache, report, fpc, prev>>

\* one turn of the loop of compare_trees: the result is cached, and a full
\* cache is assigned to the reports and emptied
compare_trees_loop ==
    /\ fpc = "loop"
    /\ fm.action = COMPARE_TREES
    /\ fq # <<>>
    /\ LET cache == Append(results_cache, Head(fq))
           w == AssignCached(Written(report), cache)
       IN  IF Len(cache) >= fm.cache_size
           THEN /\ report' = w.report
                /\ results_cache' = IF w.raised THEN cache ELSE <<>>
                /\ fpc' = IF w.raised THEN "raised" ELSE fpc
           ELSE report' = report /\ results_cache' = cache /\ fpc' = fpc
    /\ fq' = Tail(fq)
    /\ UNCHANGED <<args, libVars, stageVars, other_paths, os_sep, fm, data, sidecars, manifest_file, todo,
                   prev>>

\* the loop of compare_trees is over: the rest of the cache is assigned, the
\* report closed and shown
compare_trees_finish ==
    /\ fpc = "loop"
    /\ fm.action = COMPARE_TREES
    /\ todo = {} /\ fq = <<>>
    /\ LET w == AssignCached(Written(report), results_cache)
       IN  /\ report' = w.report
           /\ results_cache' = IF w.raised THEN results_cache ELSE <<>>
           /\ fpc' = IF w.raised THEN "raised" ELSE "done"
    /\ UNCHANGED <<args, libVars, stageVars, other_paths, os_sep, fm, data, sidecars, manifest_file, todo,
                   fq, prev>>

\* ----------------------------------------------------- CompareManifests
\* FileManager.__init__ ends primary_path with os.sep, and compare_manifests
\* opens primary_path as the master manifest: the open of a file path that
\* ends with a separator raises OSError
master_open_raises == TRUE

\* compare_manifests: count_lines or the open of the master manifest raises
\* before a line is given to a worker
compare_manifests ==
    /\ fpc = "start"
    /\ fm.action = COMPARE_MANIFESTS
    /\ fpc' = IF master_open_raises THEN "raised" ELSE "loop"
    /\ UNCHANGED <<args, libVars, stageVars, other_paths, os_sep, fm, data, sidecars, manifest_file, todo,
                   fq, results_cache, report, prev>>

\* ------------------------------------------------- the runs of the model
\* the data files a primary tree may hold at a path
DataStates == {Absent, Unreadable(<<>>)} \cup {Present(c) : c \in Sources}

\* the digests a sidecar or a manifest line may list for a file
Digests(algorithm) == {HashBlocks(HashNew(algorithm), c) : c \in Sources}

\* a FileManager constructed for a run of the action
Managers(action) ==
    [action : {action}, algorithm : {default_algorithm}, manifest : BOOLEAN,
     cache_size : 1 .. MaxCache, count_files : BOOLEAN, run : {1}]

\* Create: some of the files have their sidecar from an earlier run
InitCreate ==
    /\ fm \in {m \in Managers(CREATE) : ~m.count_files}
    /\ data \in [Paths -> DataStates]
    /\ \E old \in SUBSET Paths :
        sidecars = [k \in Paths \X algorithms_supported |->
                      IF k[1] \in old /\ k[2] = fm.algorithm
                      THEN Present(<<CreateLine(HashBlocks(HashNew(k[2]), <<>>),
                                                basename(k[1]))>>)
                      ELSE Absent]
    /\ manifest_file = Absent

\* the lines a manifest may hold for the file at p: none, or one line as
\* Create (format "create") or staging (format "stage") writes it
ManifestLines(p, format) ==
    {<<>>} \cup {<<IF format = "create" THEN CreateLine(h, relpath(p))
                                         ELSE ChecksumLine(h, relpath(p))>> :
                   h \in Digests(default_algorithm)}

\* a manifest line that ends with its separator: a digest and an empty path
NoPathLine == hexdigest(HashNew(default_algorithm)) \o <<" ">>

\* the lines of a manifest: an empty line or none, then the lines of the files
\* or a line without a path
Manifests ==
    {blank \o PathLines[1] \o PathLines[2] :
        blank \in {<<>>, << <<>> >>},
        PathLines \in UNION {[1 .. 2 -> ManifestLines(PathList[1], f) \cup ManifestLines(PathList[2], f)
                                         \cup {<<NoPathLine>>}] : f \in {"create", "stage"}}}

\* ValidateManifest: the manifest is missing, or holds lines in one format
InitValidateManifest ==
    /\ fm \in {m \in Managers(VALIDATE_MANIFEST) : m.manifest}
    /\ data \in [Paths -> DataStates]
    /\ sidecars = NoSidecars
    /\ manifest_file \in {Absent} \cup {Present(lines) : lines \in Manifests}

\* the algorithms under which the checksum trees of the runs hold sidecars
TreeAlgorithms == {"sha256", "md5"}

\* the sidecars a checksum tree may hold at <path>.<algorithm>: as staging
\* writes them, for the default algorithm also one that cannot be read
SidecarStates(p, algorithm) ==
    {Absent} \cup {Present(<<ChecksumLine(h, basename(p))>>) : h \in Digests(algorithm)}
             \cup (IF algorithm = default_algorithm THEN {Unreadable(<<>>)} ELSE {})

InitValidateTree ==
    /\ fm \in {m \in Managers(VALIDATE_TREE) : ~m.manifest /\ ~m.count_files}
    /\ data \in [Paths -> DataStates]
    /\ \E t \in {u \in [Paths \X TreeAlgorithms -> UNION {SidecarStates(p, a) : p \in Paths, a \in TreeAlgorithms}] :
                        \A k \in DOMAIN u : u[k] \in SidecarStates(k[1], k[2])} :
        sidecars = [k \in Paths \X algorithms_supported |->
                      IF k[2] \in TreeAlgorithms THEN t[k] ELSE Absent]
    /\ manifest_file = Absent

\* the checksum trees of a comparison: sidecars of the default algorithm
CompareTreeStates ==
    {[k \in Paths \X algorithms_supported |->
         IF k[2] = default_algorithm THEN t[k[1]] ELSE Absent] :
        t \in {u \in [Paths -> UNION {SidecarStates(p, default_algorithm) : p \in Paths}] :
                  \A p \in Paths : u[p] \in SidecarStates(p, default_algorithm)}}

\* CompareTrees: a master tree and one or more other trees
InitCompareTrees ==
    /\ fm \in {m \in Managers(COMPARE_TREES) : ~m.manifest /\ ~m.count_files}
    /\ data = [p \in Paths |-> Absent]
    /\ sidecars \in CompareTreeStates
    /\ manifest_file = Absent
    /\ other_paths \in UNION {[1 .. n -> CompareTreeStates] : n \in 1 .. MaxOthers}

\* CompareManifests: a master manifest and another manifest
InitCompareManifests ==
    /\ fm \in {m \in Managers(COMPARE_MANIFESTS) : ~m.manifest}
    /\ data = [p \in Paths |-> Absent]
    /\ sidecars = NoSidecars
    /\ manifest_file \in {Present(lines) : lines \in Manifests}
    /\ other_paths \in {<<Present(lines)>> : lines \in {<<>>, manifest_file.content}}

\* the command lines of the run: a directory that does not exist holds no
\* file, and validate_tree may name a checksum tree that does not exist
FileManagerArgs ==
    {a \in [dir : BOOLEAN, tree : BOOLEAN, targets : {0}, trees : {0}, manifests : {0}] :
        /\ ~a.dir => /\ fm.action # COMPARE_MANIFESTS
                     /\ IF fm.action = COMPARE_TREES THEN sidecars = NoSidecars
                        ELSE data = [p \in Paths |-> Absent]
        /\ ~a.tree => fm.action = VALIDATE_TREE /\ sidecars = NoSidecars}

InitFM ==
    /\ StagingOff
    /\ LibraryOff
    /\ os_sep \in {"/", "\\"}
    /\ \/ (InitCreate \/ InitValidateManifest \/ InitValidateTree) /\ other_paths = <<>>
       \/ InitCompareTrees
       \/ InitCompareManifests
    /\ todo = {}
    /\ fq = <<>>
    /\ results_cache = <<>>
    /\ report = NewReport
    /\ fpc = "main"
    /\ prev = NoPrevious
    /\ args \in FileManagerArgs

NextFM ==
    \/ main
    \/ create_checksums
    \/ create_checksum_or_skip_file
    \/ create_loop
    \/ create_finish
    \/ create_again
    \/ validate_manifest
    \/ validate_file_with_checksum
    \/ validate_manifest_loop
    \/ validate_manifest_flush
    \/ check_for_file_in_manifest
    \/ validate_manifest_additional
    \/ validate_manifest_finish
    \/ validate_tree
    \/ validate_checksum_file
    \/ validate_tree_loop
    \/ validate_tree_flush
    \/ check_for_cs_file
    \/ validate_tree_additional
    \/ validate_tree_finish
    \/ compare_trees
    \/ compare_checksum_file_to_other_trees
    \/ compare_trees_loop
    \/ compare_trees_finish
    \/ compare_manifests

SpecFM == InitFM /\ [][NextFM]_vars

\* ------------------------------------------------------- all the runs
\* a run of mpt stage or of one of the FileManager pipelines
InitAll == Init \/ InitFM
NextAll == Next \/ NextFM
SpecAll == InitAll /\ [][NextAll]_vars

\* ==================================================== library functions
\* ------------------------------------------------------------ scan_tree
\* the names an entry of a directory may have
NameList == << <<"a">>, <<"b", ".", "x">> >>

\* the paths of a tree below its root, a path being the names from the root down
TreePaths == {<<NameList[i]>> : i \in DOMAIN NameList}
             \cup {<<NameList[i], NameList[j]>> : i, j \in DOMAIN NameList}

\* what lies at a path: nothing, a regular file, a directory, a directory
\* that os.scandir may not list, an entry whose is_dir raises PermissionError,
\* or an entry that is neither a file nor a directory
EntryKinds == {"none", "file", "dir", "denied", "raises", "other"}

\* the trees: an entry lies in a directory, and the entries below the
\* deepest paths are left out
Trees ==
    {t \in [TreePaths -> EntryKinds] :
        \A p \in TreePaths :
            /\ Len(p) > 1 /\ t[p] # "none" => t[SubSeq(p, 1, Len(p) - 1)] \in {"dir", "denied"}
            /\ Len(p) > 1 => t[p] \notin {"dir", "denied"}}

EntryAt(tree, p) == IF p \in DOMAIN tree THEN tree[p] ELSE "none"

\* text.endswith(suffix)
EndsWith(text, suffix) ==
    Len(suffix) <= Len(text) /\ SubSeq(text, Len(text) - Len(suffix) + 1, Len(text)) = suffix

\* the formats argument: None, or a list of extensions
NoFormats == [none |-> TRUE, list |-> {}]
Formats(list) == [none |-> FALSE, list |-> list]

\* as Allowed, without the test of the extension
Allowed_NoFilter(p, formats) == TRUE

\* "if formats is None: yield ... elif entry.path.endswith(tuple(formats)): yield"
Allowed(p, formats) ==
    formats.none \/ \E f \in formats.list : EndsWith(JoinPath(p, "/"), f)

\* scan_tree(path, recursive, formats): the paths it yields, for the entries
\* of the directory from the i-th name on
RECURSIVE scan_tree_from(_, _, _, _, _)
scan_tree_from(tree, path, i, recursive, formats) ==
    IF i > Len(NameList) THEN <<>>
    ELSE LET entry == Append(path, NameList[i])
             kind == EntryAt(tree, entry)
             yielded ==
                IF kind \in {"none", "raises"} THEN <<>>
                ELSE IF kind \in {"dir", "denied"} /\ recursive
                     THEN IF kind = "denied" THEN <<>>
                          ELSE scan_tree_from(tree, entry, 1, recursive, formats)
                     ELSE IF kind = "file" /\ Allowed(entry, formats) THEN <<entry>>
                          ELSE <<>>
         IN  yielded \o scan_tree_from(tree, path, i + 1, recursive, formats)

scan_tree(tree, recursive, formats) == scan_tree_from(tree, <<>>, 1, recursive, formats)

ScanCalls ==
    [fn : {"scan_tree"}, tree : Trees, recursive : BOOLEAN,
     formats : {NoFormats, Formats({<<".", "x">>})}]

\* one traversal of the tree of the call
call_scan_tree ==
    /\ call.fn = "scan_tree"
    /\ Len(ret.values) < MaxCalls
    /\ ret' = [ret EXCEPT !.values = Append(@, scan_tree(call.tree, call.recursive, call.formats))]
    /\ UNCHANGED <<args, stageVars, fmVars, call>>

\* ------------------------------------------------------------ hash_file
\* the bytes of a file
ByteStrings == UNION {[1 .. k -> {0, 1}] : k \in 0 .. MaxLen}

\* iter(lambda: f.read(blocksize), b""): the blocks read from the content
RECURSIVE read_blocks(_, _)
read_blocks(content, blocksize) ==
    IF content = <<>> THEN <<>>
    ELSE IF Len(content) <= blocksize THEN <<content>>
    ELSE <<SubSeq(content, 1, blocksize)>>
         \o read_blocks(SubSeq(content, blocksize + 1, Len(content)), blocksize)

\* the loop of hash_file: hasher.update(block) and size += len(block)
RECURSIVE hash_loop(_, _, _)
hash_loop(hasher, size, blocks) ==
    IF blocks = <<>> THEN <<hasher, size>>
    ELSE hash_loop(HashBlocks(hasher, Head(blocks)), size + Len(Head(blocks)), Tail(blocks))

\* hexdigest() of a SHAKE hasher requires a length: TypeError
hexdigest_raises(algorithm) == algorithm \in {"shake_128"}

\* hash_file(in_path, algorithm, blocksize) for a readable file with the content
hash_file_in_blocks(content, algorithm, blocksize) ==
    LET end == hash_loop(HashNew(algorithm), 0, read_blocks(content, blocksize))
    IN  <<hexdigest(end[1]), end[2]>>

HashCalls == [fn : {"hash_file"}, content : ByteStrings, algorithm : algorithms_supported]

\* one call of hash_file for the file of the call, with some block size
call_hash_file ==
    /\ call.fn = "hash_file"
    /\ ~ret.raised
    /\ Len(ret.values) < MaxCalls
    /\ \E blocksize \in 1 .. MaxLen :
        ret' = IF hexdigest_raises(call.algorithm)
               THEN [ret EXCEPT !.raised = TRUE]
               ELSE [ret EXCEPT !.values =
                        Append(@, hash_file_in_blocks(call.content, call.algorithm, blocksize))]
    /\ UNCHANGED <<args, stageVars, fmVars, call>>

\* hashlib.new raises ValueError for the names of the xxhash package
new_raises(algorithm) == algorithm \in {"xxh64"}

\* the entry next_file builds for a destination with a sidecar and no manifest
NewDestination ==
    [checksum_file |-> TRUE, manifest_file |-> FALSE, checksum_value |-> None,
     status |-> READY, handler |-> FALSE]

\* FileStager(source, destinations, algorithm).start_copy() for a source
\* with the blocks content and one new destination, when no file operation
\* fails: what write_files, check_files and undo_staging make of the
\* destination
start_copy(content, algorithm) ==
    LET checksum == HashBlocks(HashNew(algorithm), content)
        written == [NewDestination EXCEPT !.status = IN_PROGRESS]
        dk == [data |-> File(content), sidecar |-> NoFile]
        checked == CheckedDest(written, dk, checksum, "ok", "ok")
        after == CheckedDisk(written, dk, checksum, 1, "ok")
        st == [NoStager EXCEPT !.destinations = <<checked>>]
    IN  [checksum |-> checksum,
         verified |-> checked.status,
         status |-> IF failed(st) THEN UndoneDest(checked, after, FALSE, FALSE).status
                    ELSE checked.status,
         sidecar |-> IF failed(st) THEN UndoneDisk(after, FALSE, FALSE).sidecar
                     ELSE after.sidecar]

StagerCalls == [fn : {"start_copy"}, content : ByteStrings, algorithm : algorithms_supported]

\* one FileStager for the source of the call is made to copy it
call_start_copy ==
    /\ call.fn = "start_copy"
    /\ ~ret.raised
    /\ Len(ret.values) < MaxCalls
    /\ ret' = IF new_raises(call.algorithm) \/ hexdigest_raises(call.algorithm)
              THEN [ret EXCEPT !.raised = TRUE]
              ELSE [ret EXCEPT !.values = Append(@, start_copy(call.content, call.algorithm))]
    /\ UNCHANGED <<args, stageVars, fmVars, call>>

\* str.split(): the words of a text between its runs of white space; cur is
\* the word being read
WhiteSpace == {" ", "\n"}
RECURSIVE str_split(_, _)
str_split(text, cur) ==
    LET done == IF cur = <<>> THEN <<>> ELSE <<cur>>
    IN  IF text = <<>> THEN done
        ELSE IF Head(text) \in WhiteSpace THEN done \o str_split(Tail(text), <<>>)
        ELSE str_split(Tail(text), Append(cur, Head(text)))

\* ' '.join(words)
RECURSIVE str_join(_)
str_join(words) ==
    IF words = <<>> THEN <<>>
    ELSE IF Len(words) = 1 THEN words[1]
    ELSE words[1] \o <<" ">> \o str_join(Tail(words))

\* the bytes of a text file: every line with its newline
RECURSIVE file_bytes(_)
file_bytes(lines) ==
    IF lines = <<>> THEN <<>> ELSE Head(lines) \o <<"\n">> \o file_bytes(Tail(lines))

\* mmap.find(sub): the offset of the first occurrence, counted from 0, or -1
mmap_find(text, sub) ==
    LET at == {i \in 0 .. Len(text) - Len(sub) : SubSeq(text, i + 1, i + Len(sub)) = sub}
    IN  IF at = {} THEN -1 ELSE CHOOSE i \in at : \A j \in at : i <= j

\* the slice [s:e] of a mapped file: a negative offset counts from the end
mmap_slice(text, s, e) ==
    LET n == Len(text)
        lo == IF s < 0 THEN (IF n + s < 0 THEN 0 ELSE n + s) ELSE (IF s > n THEN n ELSE s)
        hi == IF e < 0 THEN (IF n + e < 0 THEN 0 ELSE n + e) ELSE (IF e > n THEN n ELSE e)
    IN  IF lo < hi THEN SubSeq(text, lo + 1, hi) ELSE <<>>

\* _check_other_manifests(manifest_line) of a FileManager with one other
\* manifest, which can be opened and mapped: the pair it returns
check_other_manifests_(manifest_line, other) ==
    LET words == str_split(manifest_line, <<>>)
        file_cs == words[1]
        file_path == str_join(Tail(words))
        text == file_bytes(other.content)
        found == mmap_find(text, file_path)
        s_pos == found - (Len(file_cs) + 1)
        e_pos == s_pos + Len(file_cs)
    IN  IF words = <<>> \/ file_path = <<>> THEN [path |-> <<>>, status |-> "None"]
        ELSE IF found = -1 THEN [path |-> file_path, status |-> ComparisonResult_MISSING]
        ELSE IF mmap_slice(text, s_pos, e_pos) # file_cs
             THEN [path |-> file_path, status |-> UNMATCHED]
             ELSE [path |-> file_path, status |-> MATCHED]

\* the lines of the manifests of the calls: one of two digests, then the
\* token of the file d, of the file a in the directory dd, or of a file with
\* one or two spaces in its name
ManifestPathTexts ==
    {<<"d">>, <<"d", "d", "/", "a">>, <<"d", " ", "d">>, <<"d", " ", " ", "d">>}
ManifestLineTexts ==
    {cs \o <<" ", "*", "/">> \o path : cs \in {<<"7">>, <<"8">>}, path \in ManifestPathTexts}

\* the other manifest of a call: no line, or up to two lines for different files
OtherManifests ==
    {<<>>} \cup {<<l>> : l \in ManifestLineTexts}
           \cup {<<l, m>> : l, m \in ManifestLineTexts}

CompareCalls ==
    {c \in [fn : {"check_other_manifests"}, manifest_line : ManifestLineTexts,
            other : OtherManifests] :
        Len(c.other) = 2 => split_once(c.other[1])[2] # split_once(c.other[2])[2]}

\* one call of _check_other_manifests for a line read from the master
\* manifest; the other manifest is opened and mapped first
call_check_other_manifests ==
    /\ call.fn = "check_other_manifests"
    /\ ~ret.raised
    /\ Len(ret.values) < MaxCalls
    /\ ret' = IF mmap_raises(Present(call.other))
              THEN [ret EXCEPT !.raised = TRUE]
              ELSE [ret EXCEPT !.values =
                      Append(@, check_other_manifests_(call.manifest_line \o <<"\n">>,
                                                       Present(call.other)))]
    /\ UNCHANGED <<args, stageVars, fmVars, call>>

InitLib ==
    /\ StagingOff
    /\ FileManagerOff
    /\ args = NoArgs
    /\ call \in ScanCalls \cup HashCalls \cup StagerCalls \cup CompareCalls
    /\ ret = NoReturn

NextLib ==
    \/ call_scan_tree
    \/ call_hash_file
    \/ call_start_copy
    \/ call_check_other_manifests

SpecLib == InitLib /\ [][NextLib]_vars

\* ---------------------------------------------------------------- summary
\* ReportHandler.summary for the counts of the report rep: the first line of
\* its detail (reference is what stands for the braces), and the flag
\* errors_detected as the call leaves it
summary(action, rep) ==
    IF action \in {COMPARE_TREES, COMPARE_MANIFESTS}
    THEN IF rep[ComparisonResult_MISSING].count = 0 /\ rep[UNMATCHED].count = 0
         THEN [errors_detected |-> FALSE, reference |-> "",
               detail |-> "All checksums matched."]
         ELSE [errors_detected |-> TRUE, reference |-> "",
               detail |-> "Checksums do not match on all nodes.\n"]
    ELSE IF action = CREATE
    THEN IF rep[FAILED].count > 0
         THEN [errors_detected |-> TRUE, reference |-> "",
               detail |-> "Checksums could not be generated for some files."]
         ELSE IF rep[ADDED].count > 0
         THEN [errors_detected |-> FALSE, reference |-> "", detail |-> "New files detected.\n"]
         ELSE [errors_detected |-> FALSE, reference |-> "", detail |-> "No new files detected.\n"]
    ELSE LET reference == IF action = VALIDATE_MANIFEST THEN "manifest" ELSE "checksum tree"
         IN  IF rep[MISSING].count = 0 /\ rep[INVALID].count = 0
             THEN [errors_detected |-> FALSE, reference |-> reference,
                   detail |-> "All files in {} correct.\n"]
             ELSE [errors_detected |-> TRUE, reference |-> reference,
                   detail |-> "Some files could not be validated against {}\n"]

\* ================================================================ claims
status(d) == fs.destinations[d].status

\* start_copy has returned for the worker's task
Returned == wpc = "sc_ret"

\* the digest of the bytes of the source file
SourceDigest == HashBlocks(HashNew(fs.algorithm), src.content)

\* C1: when start_copy returns, either every destination of the task is
\* STAGED or none is.
C1_Atomicity ==
    Returned => \/ \A d \in Dests : status(d) = STAGED
                \/ \A d \in Dests : status(d) # STAGED

\* a task returned rolled back: one destination that had been staged is
\* UNSTAGED next to one that is COULD_NOT_REMOVE
C1_Witness ==
    Returned /\ \E d, e \in Dests : status(d) = UNSTAGED /\ status(e) = COULD_NOT_REMOVE

\* C2: a task that did not pass the quorum gate ends with the files of every
\* destination as they were before the task started.
C2_NoSideEffects ==
    (Returned /\ hist.quorum = "failed") => disk = pre

\* a file of destination d was to be removed and is still there
LeftBehind(d) == disk[d].data.exists \/ disk[d].sidecar.exists

\* Verify found the digest of destination d different from the source digest
Mismatched(d) ==
    /\ fs.destinations[d].checksum_value # None
    /\ fs.destinations[d].checksum_value # fs.checksum

\* C3: after a digest mismatch at a destination the task ends with that
\* destination CHECKSUM_MISMATCH, every other destination UNSTAGED, a
\* destination being COULD_NOT_REMOVE instead only if a deletion failed, and
\* no other destination has the data file.
C3_MismatchRollsBack ==
    Returned => \A d \in Dests : Mismatched(d) =>
        /\ status(d) = CHECKSUM_MISMATCH \/ (status(d) = COULD_NOT_REMOVE /\ LeftBehind(d))
        /\ \A e \in Dests \ {d} :
              \/ status(e) = UNSTAGED
              \/ Mismatched(e)
              \/ status(e) = COULD_NOT_REMOVE /\ LeftBehind(e)
        /\ \A e \in Dests : status(e) # COULD_NOT_REMOVE => ~disk[e].data.exists

\* C4: the source file is gone only if every destination is STAGED, verified
\* and has its sidecar and manifest line; a task that ends with a destination
\* not STAGED still has its source file.
C4_SourceRemovedOnlyWhenStaged ==
    /\ (wpc # "idle" /\ ~src.exists) =>
          /\ fs.checksum # None
          /\ \A d \in Dests :
                /\ status(d) = STAGED
                /\ fs.destinations[d].checksum_value = fs.checksum
                /\ disk[d].sidecar.exists /\ disk[d].sidecar.content # <<>>
                /\ cfg.manifests => manifest[d] # <<>>
    /\ (Returned /\ ~completed(fs)) => src.exists

\* a task with two destinations returned staged and its source is removed
C4_Witness ==
    Returned /\ cfg.n >= 2 /\ ~src.exists /\ \A d \in Dests : status(d) = STAGED

\* C5: a destination is STAGED only if every destination has every source
\* block, its re-read digest is the digest of the source bytes and its
\* sidecar and manifest line are written; after Verify a destination with a
\* different digest is CHECKSUM_MISMATCH and one whose sidecar or manifest
\* write failed is CHECKSUM_WRITE_FAILURE.
C5_StagedOnlyIfVerified ==
    \A d \in DOMAIN fs.destinations :
        LET v == fs.destinations[d]
            line == ChecksumLine(SourceDigest, PathOf(fs.source))
            sidecar_ok == disk[d].sidecar = File(<<line>>)
            manifest_ok == manifest[d] = <<line>>
        IN  /\ v.status = STAGED =>
                /\ \A e \in Dests : /\ disk[e].data.exists
                                    /\ Len(disk[e].data.content) = Len(src.content)
                /\ hash_file(disk[d].data, default_algorithm)[1] = SourceDigest
                /\ v.checksum_file => sidecar_ok
                /\ v.manifest_file => manifest_ok
            /\ (wpc \in {"sc_undo", "raised"} /\ v.checksum_value # None) =>
                /\ v.checksum_value # SourceDigest => v.status = CHECKSUM_MISMATCH
                /\ (/\ v.checksum_value = SourceDigest
                    /\ \/ v.checksum_file /\ ~sidecar_ok
                       \/ v.manifest_file /\ ~manifest_ok)
                   => v.status = CHECKSUM_WRITE_FAILURE

\* Verify is over: one destination is STAGED, another failed to write its
\* sidecar or manifest line
C5_Witness ==
    wpc = "sc_undo" /\ \E d, e \in Dests :
        status(d) = STAGED /\ status(e) = CHECKSUM_WRITE_FAILURE

\* C6: after rollback a destination that is not COULD_NOT_REMOVE has neither
\* the data file nor the sidecar.
C6_RolledBackClean ==
    (Returned /\ ~completed(fs)) =>
        \A d \in Dests : status(d) # COULD_NOT_REMOVE =>
            ~disk[d].data.exists /\ ~disk[d].sidecar.exists

\* a rolled-back task: a destination that had been staged is UNSTAGED, one
\* whose manifest write failed keeps its state, and the files of both are gone
C6_Witness ==
    Returned /\ \E d, e \in Dests :
        /\ status(d) = UNSTAGED /\ status(e) = CHECKSUM_WRITE_FAILURE
        /\ ~LeftBehind(d) /\ ~LeftBehind(e)

\* undo_staging failed to delete a file that was at destination d
DeletionFailed(d) ==
    \/ disk[d].data.exists /\ disk'[d].data.exists
    \/ disk[d].sidecar.exists /\ ~disk'[d].data.exists /\ disk'[d].sidecar.exists

\* C7: in rollback a destination becomes COULD_NOT_REMOVE only when deleting
\* a file that was there failed, and a READY, IN_PROGRESS or STAGED
\* destination whose files are gone becomes UNSTAGED.
C7_RollbackStates ==
    [][(wpc = "sc_undo" /\ wpc' = "sc_ret" /\ failed(fs)) =>
        \A d \in Dests :
            /\ fs'.destinations[d].status = COULD_NOT_REMOVE => DeletionFailed(d)
            /\ (/\ status(d) \in {READY, IN_PROGRESS, STAGED}
                /\ ~disk'[d].data.exists /\ ~disk'[d].sidecar.exists)
               => fs'.destinations[d].status = UNSTAGED]_vars

Recorded ==
    Len(results.staged) + Len(results.failed) + Len(results.aborted) + Len(results.unknown)

C9_CounterCountsWriteFailures ==
    [][(mpc = "loop" /\ outq # <<>> /\ results' # results) =>
        results'.consecutive_failures =
            IF Head(outq).write_fault THEN results.consecutive_failures + 1 ELSE 0]_vars

C11_NoTaskAfterTrip ==
    [][terminate => ~(wpc = "idle" /\ wpc' = "sc_open")]_vars

\* C12: when the run has ended after the breaker tripped, no task that the
\* worker had taken before the trip is left unfinished: such a task has
\* returned from start_copy and its result has been sent.
C12_InFlightTasksFinish ==
    (mpc = "done" /\ terminate /\ ~hist.late) => wpc = "idle"

\* the kinds under which the report has a row for the path
RecordedAs(path) ==
    {k \in DOMAIN report : \E i \in DOMAIN report[k].rows : report[k].rows[i].path = path}

\* the first loop of a validation run is over and its results are written
Validated1 == fpc \in {"additional", "done"}

\* the sidecar and the manifest line of the file at p are the ones check_files
\* writes for a destination whose data file has the bytes of the file
SidecarAsStaged(p) ==
    sidecars[<<p, default_algorithm>>] =
        Present(<<ChecksumLine(hash_file(data[p], default_algorithm)[1], basename(p))>>)
ManifestAsStaged(p) ==
    \E i \in DOMAIN manifest_file.content :
        manifest_file.content[i] =
            ChecksumLine(hash_file(data[p], default_algorithm)[1], relpath(p))

\* C13: a data file that lies in a destination with the sidecar and the
\* manifest line staging wrote for it is recorded VALID when the destination
\* is validated against its checksum tree and against its manifest.
C13_StageThenValidate ==
    Validated1 => \A p \in Paths : data[p].readable =>
        /\ (fm.action = VALIDATE_TREE /\ SidecarAsStaged(p))
              => VALID \in RecordedAs(file_key(relpath(p)))
        /\ (fm.action = VALIDATE_MANIFEST /\ ManifestAsStaged(p))
              => VALID \in RecordedAs(<<"*", "\\">> \o relpath(p))

\* the paths of the rows of a kind in a report
RowPaths(rep, kind) == {rep[kind].rows[i].path : i \in DOMAIN rep[kind].rows}

\* the number of rows of a kind with the path
RowCount(rep, kind, path) ==
    Cardinality({i \in DOMAIN rep[kind].rows : rep[kind].rows[i].path = path})

\* the second run of Create
SecondRun == fm.action = CREATE /\ fm.run = 2

Outcomes(path) ==
    {fq[i].status : i \in {j \in DOMAIN fq : fq[j].path = path}}
    \cup {results_cache[i].status : i \in {j \in DOMAIN results_cache :
                                              results_cache[j].path = path}}
    \cup RecordedAs(path)

\* the lines the present run has appended to the manifest
AppendedLines ==
    {manifest_file.content[i] :
        i \in {j \in DOMAIN manifest_file.content : j > Len(prev.manifest_file.content)}}

TotalRows(path) ==
    RowCount(report, ADDED, path) + RowCount(report, SKIPPED, path)
    + RowCount(report, FAILED, path)

\* a worker of Create takes the step for a file; the file is TaskFile
CreateStep == fm.action = CREATE /\ fpc = "loop" /\ fm' = fm /\ todo' # todo
TaskFile == CHOOSE p \in todo : p \notin todo'
TaskResult == fq'[Len(fq')]

\* C15: Create classifies each file under the primary root exactly once.  A
\* file whose sidecar exists is SKIPPED and the sidecar and the manifest stay
\* as they are; otherwise the outcome is ADDED with the size of the file, the
\* sidecar holds the digest line, and exactly one line is appended to a
\* configured manifest (a failure, C16's subject, gives FAILED).  The manifest
\* grows only for an ADDED outcome.
C15_ClassifiedOnce ==
    /\ [][CreateStep =>
            /\ TaskResult.path = relpath(TaskFile)
            /\ IF sidecars[OutFile(TaskFile)].exists
               THEN /\ TaskResult.status = SKIPPED
                    /\ sidecars' = sidecars /\ manifest_file' = manifest_file
               ELSE /\ TaskResult.status \in {ADDED, FAILED}
                    /\ TaskResult.status = ADDED =>
                        /\ TaskResult.size = hash_file(data[TaskFile], fm.algorithm)[2]
                        /\ sidecars'[OutFile(TaskFile)] =
                             Present(<<CreateLine(hash_file(data[TaskFile], fm.algorithm)[1],
                                                  basename(TaskFile))>>)
                        /\ fm.manifest => manifest_file' = AppendedManifest(TaskFile)
            /\ manifest_file' # manifest_file => TaskResult.status = ADDED]_vars
    /\ []((fm.action = CREATE /\ fpc \in {"done", "raised"}) =>
            \A p \in DataFiles : TotalRows(relpath(p)) = 1)

\* C16: in Create a file for which hashing, the sidecar or the manifest line
\* raises is recorded as FAILED with no size, and Create goes on with every
\* remaining file: no task ends with an exception, the run does not stop, and
\* when it is over every file has its row, the FAILED rows without a size.
C16_FailuresAreRecorded ==
    fm.action = CREATE =>
        /\ \A i \in DOMAIN fq : fq[i].status # "exception"
        /\ fpc # "raised"
        /\ fpc = "done" =>
             /\ \A p \in DataFiles : TotalRows(relpath(p)) = 1
             /\ \A p \in DataFiles :
                  (hash_raises(data[p]) /\ ~sidecars[OutFile(p)].exists)
                      => RecordedAs(relpath(p)) = {FAILED}
             /\ \A i \in DOMAIN report[FAILED].rows : report[FAILED].rows[i].size = None

\* the manifest entries: the lines iterate_manifest yields, split
Entry(i) == split_once(manifest_file.content[i])

\* the outcome the listed digest and the file under the primary root call for
EntryStatus(e) ==
    LET file == FullPathFile(e[2])
    IN  IF ~file.exists THEN MISSING
        ELSE IF ~file.readable THEN OSERROR
        ELSE IF hexdigest(hash_file(file, fm.algorithm)[1]) = e[1] THEN VALID
        ELSE INVALID

\* ValidateManifest has gone through the manifest, or has stopped
ManifestRead ==
    /\ fm.action = VALIDATE_MANIFEST
    /\ manifest_file.exists
    /\ ~(fm.count_files /\ count_lines_raises(manifest_file))
    /\ fpc \in {"additional", "done", "raised"}

\* C17: ValidateManifest records exactly one outcome for every manifest line
\* with a separator, split at the first separator into digest and path: VALID
\* when the digest of the file is the listed one, INVALID when it is not,
\* MISSING when the file is absent, OSERROR when it cannot be read.  Lines
\* without a separator have no outcome, and no entry stops the others.
C17_OneOutcomePerEntry ==
    ManifestRead =>
        /\ \A kind \in {VALID, INVALID, MISSING, OSERROR} : \A i \in iterate_manifest :
             RowCount(report, kind, Entry(i)[2]) =
                Cardinality({j \in iterate_manifest :
                                Entry(j)[2] = Entry(i)[2] /\ EntryStatus(Entry(j)) = kind})
        /\ report[VALID].count + report[INVALID].count + report[MISSING].count
             + report[OSERROR].count = Cardinality(iterate_manifest)

\* the path a sidecar's outcome is recorded under: the key of its data file,
\* or its own path when it cannot be read
SidecarKey(k) ==
    IF sidecars[k].readable THEN file_key(relpath(k[1]))
    ELSE JoinPath(k[1], os_sep) \o <<".", k[2]>>

\* the outcome the sidecar and its data file call for
SidecarStatus(k) ==
    IF ~sidecars[k].readable THEN OSERROR
    ELSE IF ~data[k[1]].exists THEN MISSING
    ELSE IF ~data[k[1]].readable THEN OSERROR
    ELSE IF hexdigest(hash_file(data[k[1]], k[2])[1]) = first_field(sidecars[k]) THEN VALID
    ELSE INVALID

\* ValidateTree has gone through the checksum tree, or has stopped
TreeRead == fm.action = VALIDATE_TREE /\ fpc \in {"additional", "done", "raised"}

\* C18: ValidateTree records exactly one outcome for every sidecar of the
\* checksum tree: MISSING when the data file named by the sidecar's path
\* without the extension is absent, VALID or INVALID by the digests, OSERROR
\* when the sidecar or the data file cannot be read; an OSERROR does not stop
\* the remaining sidecars from being validated and recorded.
C18_OneOutcomePerSidecar ==
    TreeRead =>
        /\ \A kind \in {VALID, INVALID, MISSING, OSERROR} : \A k \in SidecarFiles :
             RowCount(report, kind, SidecarKey(k)) =
                Cardinality({j \in SidecarFiles :
                                SidecarKey(j) = SidecarKey(k) /\ SidecarStatus(j) = kind})
        /\ report[VALID].count + report[INVALID].count + report[MISSING].count
             + report[OSERROR].count = Cardinality(SidecarFiles)

TokenOccurs(p) ==
    \/ Occurs(file_key(relpath(p)), manifest_file)
    \/ Occurs(<<"*", "/">> \o ForwardSlashes(relpath(p)), manifest_file)

\* C20: ValidateManifest reports ADDITIONAL only after the manifest entries
\* have been validated, and when it is over every file of the primary tree
\* whose token occurs nowhere in the manifest has exactly one ADDITIONAL row
\* and every file whose token occurs has none.
C20_AdditionalByToken ==
    (fm.action = VALIDATE_MANIFEST /\ manifest_file.exists) =>
        /\ fpc \in {"start", "loop"} => report[ADDITIONAL].count = 0
        /\ fpc \in {"done", "raised"} =>
             \A p \in DataFiles :
                RowCount(report, ADDITIONAL, file_key(relpath(p))) =
                    IF TokenOccurs(p) THEN 0 ELSE 1

\* Open has just run for the worker's task
OpenStep == wpc = "sc_open" /\ wpc' = "sc_write"

\* C30: Open gives every destination its status by the files of that
\* destination alone: DUPLICATE_FILE when the data file is there, else
\* DUPLICATE_CHECKSUM when the sidecar is there, else READY with an open
\* handle on a data file created empty, or DATA_WRITE_FAILURE with nothing
\* created; a data file that is there keeps its content.
C30_OpenClassifies ==
    [][OpenStep => \A d \in Dests :
        LET v == fs'.destinations[d]
        IN  /\ disk[d].data.exists =>
                v.status = DUPLICATE_FILE /\ disk'[d] = disk[d]
            /\ (~disk[d].data.exists /\ disk[d].sidecar.exists) =>
                v.status = DUPLICATE_CHECKSUM /\ disk'[d] = disk[d]
            /\ (~disk[d].data.exists /\ ~disk[d].sidecar.exists) =>
                \/ v.status = READY /\ v.handler
                     /\ disk'[d] = [disk[d] EXCEPT !.data = File(<<>>)]
                \/ v.status = DATA_WRITE_FAILURE /\ ~v.handler /\ disk'[d] = disk[d]]_vars

\* Open has run for two destinations: one has an old sidecar and no data
\* file, the other is READY with its data file created
C30_Witness ==
    /\ wpc = "sc_write"
    /\ \E d, e \in Dests :
        /\ status(d) = DUPLICATE_CHECKSUM /\ ~disk[d].data.exists
        /\ status(e) = READY /\ fs.destinations[e].handler /\ disk[e].data = File(<<>>)

\* the set of the items of a sequence
Range(seq) == {seq[i] : i \in DOMAIN seq}

\* the regular files of the tree of the call that a traversal can reach and
\* that the allow-list lets through
ExpectedFiles ==
    {p \in TreePaths :
        /\ call.tree[p] = "file"
        /\ \A k \in 1 .. Len(p) - 1 : call.tree[SubSeq(p, 1, k)] = "dir"
        /\ call.recursive \/ Len(p) = 1
        /\ call.formats.none \/ \E f \in call.formats.list : EndsWith(JoinPath(p, "/"), f)}

\* C28: every traversal by scan_tree yields each regular file once: all files
\* of the tree with recursion, the files of the root without; with an
\* allow-list the files whose path ends with a listed extension; entries and
\* sub-directories that raise PermissionError are passed over and the rest is
\* still yielded; a second traversal yields the same files.
C28_ScanTree ==
    call.fn = "scan_tree" =>
        \A i \in DOMAIN ret.values :
            /\ Cardinality(Range(ret.values[i])) = Len(ret.values[i])
            /\ Range(ret.values[i]) = ExpectedFiles
            /\ ~ret.raised

\* two recursive traversals of a tree whose first entry is a directory that
\* may not be listed: both yield the file that comes after it
C28_Witness ==
    /\ call.fn = "scan_tree" /\ call.recursive
    /\ call.tree[<<NameList[1]>>] = "denied"
    /\ Len(ret.values) = MaxCalls
    /\ \A i \in DOMAIN ret.values : <<NameList[2]>> \in Range(ret.values[i])

\* C29: for every algorithm of the registry hash_file succeeds on a readable
\* file, and two calls on the same bytes return the same digest and the same
\* byte count whatever the block sizes.
C29_HashFile ==
    call.fn = "hash_file" =>
        /\ ~ret.raised
        /\ \A i, j \in DOMAIN ret.values : ret.values[i] = ret.values[j]

\* the rows of the report as a bag of <<kind, row>>
RecordedRows(rep) ==
    LET S == UNION {{<<k, rep[k].rows[i]>> : i \in DOMAIN rep[k].rows} : k \in DOMAIN rep}
    IN  [e \in S |-> Cardinality({i \in DOMAIN rep[e[1]].rows : rep[e[1]].rows[i] = e[2]})]

\* the rows a result of the dispatcher is due, as a bag of <<kind, row>>: one
\* row of its kind, and for a comparison the rows of the partial-match policy
Due(res) ==
    IF res.len = 3 THEN SetToBag({<<res.status, Row(res.path, res.size)>>})
    ELSE LET row == [path |-> res.path, size |-> None, roots |-> res.status]
             bad == {i \in DOMAIN res.status : res.status[i].result # MATCHED}
         IN  IF bad = {} THEN SetToBag({<<MATCHED, row>>})
             ELSE [e \in {<<res.status[i].result, row>> : i \in bad}
                     |-> Cardinality({i \in bad : res.status[i].result = e[1]})]

RECURSIVE DueAll(_)
DueAll(cache) == IF cache = <<>> THEN EmptyBag ELSE Due(Head(cache)) (+) DueAll(Tail(cache))

\* the result the loop takes from the dispatcher in this step, if it takes one
Taken ==
    IF fq # <<>> /\ fq' = Tail(fq)
       /\ (fm.action # COMPARE_TREES => Head(fq).status \notin {"exception", "None"})
    THEN IF fpc = "additional"
         THEN SetToBag({<<Head(fq).status, Row(file_key(Head(fq).path), None)>>})
         ELSE Due(Head(fq))
    ELSE EmptyBag

\* the dispatcher hands the loop an exception, or a result the loop cannot unpack
DispatcherRaises ==
    /\ fq # <<>> /\ fq' = Tail(fq)
    /\ fm.action # COMPARE_TREES
    /\ Head(fq).status = "exception" \/ (fpc = "loop" /\ Head(fq).len # 3)

\* a step of a pipeline's loops in which results are cached or written
SinkStep ==
    /\ fpc \in {"loop", "additional"}
    /\ fm' = fm
    /\ ~DispatcherRaises
    /\ \/ fq # <<>> /\ fq' = Tail(fq)
       \/ report' # report \/ results_cache' # results_cache \/ fpc' # fpc

\* the sum of the sizes of the rows that carry one
RECURSIVE SumSizes(_)
SumSizes(rows) ==
    IF rows = <<>> THEN 0
    ELSE (IF Head(rows).size # None THEN Head(rows).size ELSE 0) + SumSizes(Tail(rows))

\* C24: the result sink records every outcome exactly once.  A step of a
\* loop that takes a result from the dispatcher or flushes the cache does not
\* raise, and the rows written together with the rows due to the cached
\* results are the ones of the step before plus the rows due to the result
\* taken; when a pipeline is done the cache is empty; always each partition
\* has one header from its first row on, a count equal to the number of its
\* rows and a byte total equal to the sum of the sizes its rows carry.
C24_SinkExactlyOnce ==
    /\ [][SinkStep =>
            /\ fpc' # "raised"
            /\ RecordedRows(report') (+) DueAll(results_cache')
                 = RecordedRows(report) (+) DueAll(results_cache) (+) Taken]_vars
    /\ [](fpc = "done" => results_cache = <<>>)
    /\ [](\A k \in DOMAIN report :
            /\ report[k].headers = (IF report[k].rows = <<>> THEN 0 ELSE 1)
            /\ report[k].count = Len(report[k].rows)
            /\ report[k].size = SumSizes(report[k].rows))


\* a worker of CompareTrees takes the step for the sidecar ComparedFile of
\* the master tree and returns Compared
CompareStep == fm.action = COMPARE_TREES /\ fpc = "loop" /\ todo' # todo
ComparedFile == CHOOSE k \in todo : k \notin todo'
Compared == fq'[Len(fq')]

\* the rows of a kind that the report holds for the path
RowsFor(kind, path) ==
    {report[kind].rows[i] : i \in {j \in DOMAIN report[kind].rows : report[kind].rows[j].path = path}}

\* the sidecar k of the master tree is readable and equal in every other tree
SameInAll(k) ==
    /\ sidecars[k].readable
    /\ \A i \in DOMAIN other_paths :
         other_paths[i][k].readable /\ other_paths[i][k].content = sidecars[k].content

\* C21: CompareTrees gives, for every sidecar of the master tree and every
\* other root, MISSING when the root has no sidecar at the relative path,
\* MATCHED when it has one with the same digest and UNMATCHED when it has one
\* with another digest; an unreadable master sidecar gives one OSERROR
\* against "ALL".  The comparison does not stop before every sidecar is
\* reported: when it is over, a sidecar missing in one root and equal in
\* another has a row under MISSING that says missing for the one and matched
\* for the other, a sidecar equal in all roots has exactly one row, under
\* MATCHED, and an unreadable master sidecar has its one row under OSERROR.
C21_CompareTrees ==
    /\ [][CompareStep =>
            /\ Compared.path = file_key(SidecarPath(ComparedFile))
            /\ IF ~sidecars[ComparedFile].readable
               THEN Compared.status = <<[root |-> "ALL", result |-> ComparisonResult_OSERROR]>>
               ELSE /\ Len(Compared.status) = Len(other_paths)
                    /\ \A i \in DOMAIN other_paths :
                        LET o == other_paths[i][ComparedFile]
                        IN  /\ Compared.status[i].root = OtherRoot(i)
                            /\ ~o.exists => Compared.status[i].result = ComparisonResult_MISSING
                            /\ (o.readable /\ o.content = sidecars[ComparedFile].content)
                                 => Compared.status[i].result = MATCHED
                            /\ (o.readable /\ o.content # sidecars[ComparedFile].content)
                                 => Compared.status[i].result = UNMATCHED]_vars
    /\ [](fm.action = COMPARE_TREES => fpc # "raised")
    /\ []((fm.action = COMPARE_TREES /\ fpc = "done") =>
            \A k \in MasterFiles :
                LET path == file_key(SidecarPath(k))
                IN  /\ ~sidecars[k].readable =>
                         /\ RecordedAs(path) = {ComparisonResult_OSERROR}
                         /\ RowCount(report, ComparisonResult_OSERROR, path) = 1
                    /\ SameInAll(k) =>
                         /\ RecordedAs(path) = {MATCHED}
                         /\ RowCount(report, MATCHED, path) = 1
                    /\ (sidecars[k].readable /\ \E i \in DOMAIN other_paths : ~other_paths[i][k].exists) =>
                         /\ MATCHED \notin RecordedAs(path)
                         /\ \A row \in RowsFor(ComparisonResult_MISSING, path) :
                              \A i \in DOMAIN other_paths :
                                /\ ~other_paths[i][k].exists => row.roots[i].result = ComparisonResult_MISSING
                                /\ (other_paths[i][k].readable
                                    /\ other_paths[i][k].content = sidecars[k].content)
                                      => row.roots[i].result = MATCHED
                         /\ RowCount(report, ComparisonResult_MISSING, path)
                              = Cardinality({i \in DOMAIN other_paths : ~other_paths[i][k].exists}))


\* the results a step of CompareTrees assigns to the report: the cache with
\* the result taken when the cache is full with it, the cache at the end
Flushed ==
    IF fq # <<>> /\ fq' = Tail(fq) THEN Append(results_cache, Head(fq)) ELSE results_cache
CompareFlush ==
    /\ fm.action = COMPARE_TREES /\ fpc = "loop"
    /\ \/ fq # <<>> /\ fq' = Tail(fq) /\ Len(Flushed) >= fm.cache_size
       \/ fpc' \in {"done", "raised"}

\* the number of rows with the path that the step adds to the kind
RowsAdded(kind, path) == RowCount(report', kind, path) - RowCount(report, kind, path)

\* the destinations of a compared record with the result
DestinationsWith(res, kind) == {i \in DOMAIN res.status : res.status[i].result = kind}

\* C22: the partial-match policy.  A compared record that is MATCHED on
\* every destination is recorded once, under MATCHED, and nowhere else; a
\* record with a destination that is not MATCHED is recorded once for each
\* such destination under the result of the destination, and not under
\* MATCHED; each recording adds one to the count of its kind.
C22_PartialMatchPolicy ==
    [][CompareFlush =>
        /\ \A j \in DOMAIN Flushed :
            \A kind \in ComparisonResult :
                RowsAdded(kind, Flushed[j].path) =
                    IF kind # MATCHED THEN Cardinality(DestinationsWith(Flushed[j], kind))
                    ELSE IF DestinationsWith(Flushed[j], MATCHED) = DOMAIN Flushed[j].status
                         THEN 1 ELSE 0
        /\ \A kind \in ComparisonResult :
            /\ report'[kind].count - report[kind].count
                 = Len(report'[kind].rows) - Len(report[kind].rows)
            /\ \A i \in DOMAIN report'[kind].rows :
                 i > Len(report[kind].rows) =>
                    \E j \in DOMAIN Flushed : report'[kind].rows[i].path = Flushed[j].path]_vars


\* the first place where text occurs in the file: <<line, position>>
FirstMatch(text, file) ==
    LET n == CHOOSE n \in DOMAIN file.content :
                /\ Occurs(text, [file EXCEPT !.content = <<file.content[n]>>])
                /\ \A m \in 1 .. n - 1 : ~Occurs(text, [file EXCEPT !.content = <<file.content[m]>>])
        i == CHOOSE i \in 1 .. Len(file.content[n]) :
                /\ SubSeq(file.content[n], i, i + Len(text) - 1) = text
                /\ \A j \in 1 .. i - 1 : SubSeq(file.content[n], j, j + Len(text) - 1) # text
    IN  <<n, i>>

\* the result the entry e of the master manifest is to get at another manifest
ManifestResult(e, file) ==
    IF ~Occurs(e[2], file) THEN ComparisonResult_MISSING
    ELSE LET at == FirstMatch(e[2], file)
             line == file.content[at[1]]
         IN  IF at[2] - 1 > Len(e[1])
                /\ SubSeq(line, at[2] - 1 - Len(e[1]), at[2] - 2) = e[1]
             THEN MATCHED ELSE UNMATCHED

\* the kinds under which the entry is to be recorded
KindsDue(e) ==
    LET rs == {ManifestResult(e, other_paths[n]) : n \in DOMAIN other_paths}
    IN  IF rs \subseteq {MATCHED} THEN {MATCHED} ELSE rs \ {MATCHED}

\* C23: CompareManifests goes through every entry of the master manifest:
\* it does not stop with an error, and when it is over every entry is
\* recorded under MISSING for a manifest in which its path does not occur,
\* and else under MATCHED or UNMATCHED by the digest that stands before the
\* first occurrence of the path; a line without a path has no row.
C23_CompareManifests ==
    fm.action = COMPARE_MANIFESTS =>
        /\ fpc # "raised"
        /\ fpc = "done" =>
             /\ \A i \in iterate_manifest : RecordedAs(Entry(i)[2]) = KindsDue(Entry(i))
             /\ \A kind \in ComparisonResult : \A r \in DOMAIN report[kind].rows :
                  \E i \in iterate_manifest : report[kind].rows[r].path = Entry(i)[2]


\* a step in which a pipeline writes the cache to the report and goes on
FlushStep ==
    /\ fpc = "loop" /\ fm' = fm
    /\ report' # report
    /\ fpc' # "raised"

OutcomeDue(res) ==
    IF fm.action = COMPARE_TREES THEN Due(res)
    ELSE SetToBag({<<res.status, Row(res.path, res.size)>>})

\* the rows due to the outcomes res[k] of the tasks k of a pipeline
DueOfTasks(res) ==
    LET E == UNION {BagToSet(OutcomeDue(res[k])) : k \in DOMAIN res}
    IN  [e \in E |-> Cardinality(UNION {{<<k, i>> : i \in 1 .. CopiesIn(e, OutcomeDue(res[k]))} :
                                          k \in DOMAIN res})]

\* the pipeline has come to its end
Over == fpc \in {"done", "raised"}

\* C26: what a pipeline writes does not depend on the order in which the
\* workers return nor on the cache size.  When CompareTrees is over, or the
\* first loop of ValidateTree, the partitions hold as a bag exactly the rows
\* due to the outcomes of the tasks, which the trees determine, and the
\* counts and byte totals are those of the rows; when Create is over every
\* file of the primary tree has its one row.
C26_OrderIndependence ==
    /\ (fm.action = COMPARE_TREES /\ Over) =>
          RecordedRows(report)
            = DueOfTasks([k \in MasterFiles |-> compare_checksum_file_to_other_trees_(k)])
    /\ (fm.action = VALIDATE_TREE /\ (Over \/ fpc = "additional")) =>
          RecordedRows([k \in ValidationResult \ {ADDITIONAL} |-> report[k]])
            = DueOfTasks([k \in SidecarFiles |-> validate_checksum_file_(k)])
    /\ (fm.action = CREATE /\ Over) => \A p \in DataFiles : TotalRows(relpath(p)) = 1
    /\ \A k \in DOMAIN report :
          report[k].count = Len(report[k].rows) /\ report[k].size = SumSizes(report[k].rows)


\* the command line has one of the setup errors: the primary path does not
\* exist, the manifest of ValidateManifest or the checksum tree of
\* ValidateTree does not exist, or staging has a number of trees or of
\* manifests that is neither zero nor the number of destinations
PrimaryMissing ==
    /\ ~args.dir
    /\ mpc # "off" \/ fm.action \in {CREATE, VALIDATE_MANIFEST, VALIDATE_TREE, COMPARE_TREES}
RequiredMissing ==
    \/ fm.action = VALIDATE_MANIFEST /\ ~manifest_file.exists
    \/ fm.action = VALIDATE_TREE /\ ~args.tree
NumbersMismatch ==
    /\ mpc # "off"
    /\ \/ args.trees # 0 /\ args.trees # args.targets
       \/ args.manifests # 0 /\ args.manifests # args.targets
SetupError == PrimaryMissing \/ RequiredMissing \/ NumbersMismatch

\* C27: a run with a setup error stops before a task is dispatched.  No
\* task is given to a worker and no result comes back, the run does not
\* come to its loop, and no destination file, sidecar, manifest line or row
\* of a report is written.
C27_SetupErrorsAbort ==
    /\ [](SetupError =>
            /\ mpc \in {"off", "main", "start", "returned"}
            /\ fpc \in {"off", "main", "start", "returned", "raised"}
            /\ next_index = 1 /\ wpc = "idle" /\ outq = <<>>
            /\ todo = {} /\ fq = <<>> /\ results_cache = <<>>
            /\ report = NewReport
            /\ results.staged = <<>> /\ results.failed = <<>>)
    /\ [][SetupError =>
            /\ disk' = disk /\ manifest' = manifest
            /\ sidecars' = sidecars /\ manifest_file' = manifest_file
            /\ report' = report]_vars

\* staging has returned for a number of manifests that is not the number of
\* destinations, with a directory that exists
C27_Witness ==
    /\ mpc = "returned"
    /\ args.dir
    /\ args.trees \in {0, args.targets}
    /\ args.manifests # 0 /\ args.manifests # args.targets

\* the step of start_copy in which write_files runs: the destinations leave
\* READY for IN_PROGRESS
WriteStep == wpc = "sc_write" /\ fs' # fs

\* the destinations that write_files left with DATA_WRITE_FAILURE
WriteFailed == {d \in Dests : fs'.destinations[d].status = DATA_WRITE_FAILURE}

\* C31: Write is entered only when every destination is READY.  The first
\* destination whose write fails is marked DATA_WRITE_FAILURE, no block and
\* no rest of the current block is written to a destination after that, the
\* digest of the source stays unset and every handle is closed; if no write
\* fails every destination has received the blocks of the source in order
\* (a failing medium may store the last one differently) and the digest is
\* that of the whole source.
C31_Write ==
    [][WriteStep =>
        /\ ready(fs)
        /\ IF WriteFailed # {}
           THEN \E f \in Dests, b \in 1 .. Len(src.content) :
                   /\ WriteFailed = {f}
                   /\ \A d \in Dests :
                         disk'[d].data.content
                            = Take(src.content, IF d < f THEN b ELSE b - 1)
                   /\ fs'.checksum = None
                   /\ \A d \in Dests : ~fs'.destinations[d].handler
           ELSE /\ \A d \in Dests :
                      disk'[d].data.content \in {src.content, Corrupt(src.content)}
                /\ fs'.checksum = HashBlocks(HashNew(fs.algorithm), src.content)]_vars

\* the worker goes on with the task it had: a step of start_copy
TaskStep ==
    /\ wpc \in {"sc_open", "sc_write", "sc_check", "sc_undo"}
    /\ fs'.source = fs.source

FailureStates ==
    {DUPLICATE_FILE, DUPLICATE_CHECKSUM, DATA_WRITE_FAILURE,
     CHECKSUM_WRITE_FAILURE, CHECKSUM_MISMATCH, COULD_NOT_REMOVE}

\* the changes of status the phase at position pc may make; Write, which is
\* one step, takes READY to IN_PROGRESS and may go on to DATA_WRITE_FAILURE
Transition(pc, a, b) ==
    \/ /\ pc = "sc_open"
       /\ a = READY
       /\ b \in {READY, DUPLICATE_FILE, DUPLICATE_CHECKSUM, DATA_WRITE_FAILURE}
    \/ /\ pc = "sc_write"
       /\ a = READY
       /\ b \in {IN_PROGRESS, DATA_WRITE_FAILURE}
    \/ /\ pc = "sc_check"
       /\ a = IN_PROGRESS
       /\ b \in {STAGED, CHECKSUM_MISMATCH, CHECKSUM_WRITE_FAILURE}
    \/ /\ pc = "sc_undo"
       /\ \/ a \in {READY, IN_PROGRESS, STAGED} /\ b = UNSTAGED
          \/ b = COULD_NOT_REMOVE

\* C32: across a task the status of a destination changes only along the
\* transitions of Open, Write, Verify and Rollback, and a destination that
\* has entered a failure state never becomes READY, IN_PROGRESS, STAGED or
\* UNSTAGED later.
C32_Transitions ==
    [][TaskStep =>
        \A d \in Dests :
            LET a == fs.destinations[d].status
                b == fs'.destinations[d].status
            IN  /\ a # b => Transition(wpc, a, b)
                /\ a \in FailureStates =>
                      b \notin {READY, IN_PROGRESS, STAGED, UNSTAGED}]_vars

\* a destination that failed at Open has been given COULD_NOT_REMOVE by the
\* rollback while another destination, staged by Verify, became UNSTAGED
C32_Witness ==
    /\ wpc = "sc_ret"
    /\ \E d, e \in Dests :
          /\ fs.destinations[d].status = COULD_NOT_REMOVE
          /\ fs.destinations[e].status = UNSTAGED

\* what a worker sent for a task agrees with the classification: staged
\* when all destinations are STAGED, aborted when not all are and one is
\* COULD_NOT_REMOVE, failed when one is in another failure state and none is
\* COULD_NOT_REMOVE, and never with a destination READY or IN_PROGRESS
Classified(r) ==
    LET S == Range(r.destinations)
    IN  /\ r.status \in {"staged", "aborted", "failed"}
        /\ r.status = "staged" <=> S = {STAGED}
        /\ r.status = "aborted" <=> (S # {STAGED} /\ COULD_NOT_REMOVE \in S)
        /\ r.status = "failed" <=>
              (S \cap (FailureStates \ {COULD_NOT_REMOVE}) # {} /\ COULD_NOT_REMOVE \notin S)
        /\ READY \notin S /\ IN_PROGRESS \notin S

\* C33: after start_copy every task is reported as exactly one of staged,
\* aborted or failed; the outcome unknown is unreachable: no task for which
\* start_copy returned ends with a destination still READY or IN_PROGRESS.
C33_Classification ==
    \A i \in 1 .. Len(outq) : outq[i].status # "exception" => Classified(outq[i])

\* a task has been reported as failed: the manifest line of one destination
\* could not be written and the rollback removed the files of both
C33_Witness ==
    \E i \in 1 .. Len(outq) :
        /\ outq[i].status = "failed"
        /\ CHECKSUM_WRITE_FAILURE \in Range(outq[i].destinations)
        /\ UNSTAGED \in Range(outq[i].destinations)

\* how often the file is named in the lists staged, failed and aborted
TimesListed(file) ==
    Cardinality({<<k, i>> \in {"staged", "failed", "aborted"} \X (1 .. NumFiles) :
                    i \in DOMAIN results[k] /\ results[k][i].path = file})

\* the task of the result r has staged its file, has removed a file at a
\* destination, or has left the files it created
Effective(r) ==
    \/ r.status = "staged"
    \/ Range(r.destinations) \cap {UNSTAGED, IN_PROGRESS} # {}

\* the task the worker is at has created, written or removed a file
EffectiveNow == wpc # "idle" /\ (disk # pre \/ ~src.exists)

\* C34: when the reports of the run have been written, every task that a
\* worker executed has its outcome in exactly one of the lists staged,
\* failed and aborted, also when the circuit breaker stopped the run.
C34_EveryTaskRecorded ==
    mpc = "done" =>
        /\ \A i \in 1 .. Len(outq) : Effective(outq[i]) => TimesListed(outq[i].file) = 1
        /\ EffectiveNow => TimesListed(fs.source) = 1
        /\ \A file \in 1 .. next_index - 1 : TimesListed(file) <= 1

\* C35: for every supported algorithm a FileStager is configured with,
\* Verify digests the destination file with that algorithm: a destination
\* whose bytes are those of the source is never CHECKSUM_MISMATCH and the
\* digest in its sidecar is the digest of the source under that algorithm.
C35_VerifyAlgorithm ==
    call.fn = "start_copy" =>
        \A i \in 1 .. Len(ret.values) :
            /\ ret.values[i].verified # CHECKSUM_MISMATCH
            /\ ret.values[i].sidecar
                 = File(<<ChecksumLine(HashBlocks(HashNew(call.algorithm), call.content),
                                       PathOf(1))>>)

\* C36: when a task has ended, the manifest of a destination has a line for
\* the file of the task only if the file is STAGED at that destination; a
\* task that was rolled back has left no line in any manifest.
C36_NoLineAfterRollback ==
    Returned => \A d \in Dests : manifest[d] # NoLines[d] => status(d) = STAGED

\* the manifest has an entry whose path is exactly the path of the file at
\* p, written with the separators of the platform or with forward slashes
NamedExactly(p) ==
    \E i \in iterate_manifest :
        Entry(i)[2] \in {file_key(relpath(p)), <<"*", "/">> \o ForwardSlashes(relpath(p))}

\* C37: when ValidateManifest is over, every data file of the primary tree
\* for which the manifest has no entry naming exactly its relative path is
\* reported as ADDITIONAL, also when its path is a prefix or a substring of
\* the path of an entry.
C37_AdditionalExactPath ==
    (fm.action = VALIDATE_MANIFEST /\ manifest_file.exists /\ fpc \in {"done", "raised"}) =>
        \A p \in DataFiles :
            ~NamedExactly(p) => RowCount(report, ADDITIONAL, file_key(relpath(p))) = 1

\* ValidateManifest runs against a manifest that exists and has no line
EmptyManifestRun ==
    /\ fm.action = VALIDATE_MANIFEST
    /\ manifest_file.exists
    /\ manifest_file.content = <<>>

\* C39: ValidateManifest against an existing manifest of zero lines ends
\* without error, with or without the count of the lines; it records no
\* VALID, INVALID, MISSING or OSERROR outcome and, when it is over, every
\* file of the primary tree has its ADDITIONAL row.
C39_EmptyManifest ==
    EmptyManifestRun =>
        /\ fpc # "raised"
        /\ \A kind \in {VALID, INVALID, MISSING, OSERROR} : report[kind].rows = <<>>
        /\ fpc = "done" =>
             \A p \in DataFiles : RowCount(report, ADDITIONAL, file_key(relpath(p))) = 1

\* the entries of the other manifest of the call whose path is exactly the
\* path of the master entry e
ExactEntries(e) ==
    {j \in DOMAIN call.other : split_once(call.other[j])[2] = e[2]}

\* the result the master entry e is due by the entries of the other manifest
ExactResult(e) ==
    IF ExactEntries(e) = {} THEN ComparisonResult_MISSING
    ELSE IF \E j \in ExactEntries(e) : split_once(call.other[j])[1] = e[1] THEN MATCHED
    ELSE UNMATCHED

\* C38: for a master entry and another manifest the result is MATCHED when
\* the other manifest has an entry with exactly that path and the same
\* digest, UNMATCHED when it has one with exactly that path and another
\* digest, MISSING when it has no entry with exactly that path, also for
\* paths with spaces and for paths that are a prefix of another path.
C38_ExactEntry ==
    call.fn = "check_other_manifests" =>
        \A i \in 1 .. Len(ret.values) :
            ret.values[i].status = ExactResult(split_once(call.manifest_line))

\* the report has a row of an outcome that tells of an error
ErrorKinds ==
    {OSERROR, MISSING, INVALID, UNMATCHED, ComparisonResult_MISSING, ComparisonResult_OSERROR}
HasErrorRecord == \E kind \in ErrorKinds : report[kind].rows # <<>>

\* C40: whenever a validation or comparison run has recorded an OSERROR,
\* MISSING, INVALID or UNMATCHED outcome, its summary sets errors_detected
\* and does not say that all checksums matched or that all files are
\* correct.
C40_ErrorsDetected ==
    (fm.action \in {VALIDATE_MANIFEST, VALIDATE_TREE, COMPARE_TREES, COMPARE_MANIFESTS}
       /\ HasErrorRecord) =>
        /\ summary(fm.action, report).errors_detected
        /\ summary(fm.action, report).detail
              \notin {"All checksums matched.", "All files in {} correct.\n"}

====
